---- MODULE Spec2Model ----
(***************************************************************************)
(* A model of the ink! analyzer's attribute classifier                     *)
(* (crates/ir/src/attrs.rs, crates/ir/src/attrs/arg.rs), of the refactor   *)
(* actions computed for a focused item                                     *)
(* (crates/analyzer/src/analysis/actions/item.rs) and of the ink! message  *)
(* receiver diagnostic (crates/analyzer/src/analysis/diagnostics/          *)
(* message.rs).  Every analysis is a pure function of a syntax tree; each  *)
(* specification below draws the tree from a bounded set and applies the   *)
(* analysis to it.                                                         *)
(***************************************************************************)
EXTENDS Integers, Sequences, FiniteSets, TLC

VARIABLES
    pc,         \* which step of the analysis under study has been taken
    attr,       \* the ast::Attr handed to InkAttribute::cast
    castOut,    \* the Option<InkAttribute> returned by InkAttribute::cast
    item,       \* the attributes of the target of flatten_attrs, in source order
    flatOut,    \* the actions pushed by flatten_attrs on `item`
    item2,      \* the target's attributes after the Flatten edits are applied
    flatOut2,   \* the actions pushed by flatten_attrs on `item2`
    params,     \* the text pieces of a message fn
    recvOut,    \* the Option<Diagnostic> of ensure_receiver_is_self_ref
    params2,    \* the pieces after one quick-fix has been applied
    recvOut2,   \* the Option<Diagnostic> on the re-parsed text
    file,       \* the source file handed to actions
    range,      \* the text range handed to actions
    focus,      \* the focused element actions resolved the range to
    results,    \* the Vec<Action> filled by actions
    entity,     \* the ink! message or test handed to its diagnostics
    diags,      \* the Vec<Diagnostic> filled by the diagnostics
    kinds,      \* the two InkAttributeKind values handed to cmp
    ordering,   \* the Ordering returned by cmp
    context,    \* a function, the module around it and the attribute being typed
    suggested,  \* the ink! macros suggested for the function
    item_focus, \* whether the range is on the declaration and on the body of the item
    entity_call, \* the insert offset actions handed to the entity builders
    project_name, \* the name handed to new_project, as its characters
    project,    \* the Result<Project, Error> returned by new_project
    kind_in,    \* a pair of strings, or the kind, handed to the InkMacroKind conversions
    kind_out    \* the InkMacroKind, or the strings, the conversions return

vars == <<pc, attr, castOut, item, flatOut, item2, flatOut2,
          params, recvOut, params2, recvOut2, file, range, focus, results,
          entity, diags, kinds, ordering, context, suggested,
          item_focus, entity_call, project_name, project, kind_in, kind_out>>

\* Option::None (also the value of a variable a specification does not use)
\* and Option::Some.
None == <<>>
Some(x) == <<x>>

\* ------------------------------------------------------------------------
\* Bounds of the model.
\* ------------------------------------------------------------------------
MaxSegs == 3    \* path segments of a generated attribute
MaxArgs == 3    \* arguments of a generated attribute
MaxAttrs == 3   \* attributes on the target of flatten_attrs

\* ------------------------------------------------------------------------
\* Generic helpers.
\* ------------------------------------------------------------------------
Range(s) == {s[i] : i \in 1..Len(s)}

SeqsUpTo(S, n) == UNION {[1..k -> S] : k \in 0..n}

\* Sorting works on sequences of [k |-> key, v |-> element].
Values(ks) == [i \in 1..Len(ks) |-> ks[i].v]

RECURSIVE Insert(_, _)
\* Inserts x after the last element of the sorted sequence s that is not
\* greater than x: equal elements keep their order (a stable sort).
Insert(x, s) ==
    IF s = <<>> THEN <<x>>
    ELSE IF Head(s).k <= x.k THEN <<Head(s)>> \o Insert(x, Tail(s))
    ELSE <<x>> \o s

RECURSIVE SortFrom(_, _)
SortFrom(done, rest) ==
    IF rest = <<>> THEN done
    ELSE SortFrom(Insert(Head(rest), done), Tail(rest))

\* Vec::sort, as used by Itertools::sorted: stable.
StableSort(keyed) == Values(SortFrom(<<>>, keyed))

RECURSIVE InsertBefore(_, _)
InsertBefore(x, s) ==
    IF s = <<>> THEN <<x>>
    ELSE IF Head(s).k < x.k THEN <<Head(s)>> \o InsertBefore(x, Tail(s))
    ELSE <<x>> \o s

RECURSIVE UnstableSortFrom(_, _)
UnstableSortFrom(done, rest) ==
    IF rest = <<>> THEN done
    ELSE UnstableSortFrom(InsertBefore(Head(rest), done), Tail(rest))

\* A sort that puts the last of equal elements first: what an unstable or
\* reversed sort would do.
UnstableSort(keyed) == Values(UnstableSortFrom(<<>>, keyed))

RECURSIVE JoinWith(_, _)
JoinWith(strs, sep) ==
    IF strs = <<>> THEN ""
    ELSE IF Len(strs) = 1 THEN strs[1]
    ELSE strs[1] \o sep \o JoinWith(Tail(strs), sep)

\* ------------------------------------------------------------------------
\* crates/ir/src/attrs/arg.rs
\* ------------------------------------------------------------------------
InkArgKind ==
    {"AdditionalContracts", "Anonymous", "Constructor", "Default", "Derive",
     "Env", "Environment", "Event", "Extension", "HandleStatus", "Impl",
     "KeepAttr", "Message", "Namespace", "Payable", "Selector", "Storage",
     "Topic", "Unknown"}

\* impl From<&str> for InkArgKind
InkArgKindFrom(arg_name) ==
    CASE arg_name = "additional_contracts" -> "AdditionalContracts"
      [] arg_name = "anonymous" -> "Anonymous"
      [] arg_name = "constructor" -> "Constructor"
      [] arg_name = "default" -> "Default"
      [] arg_name = "derive" -> "Derive"
      [] arg_name = "env" -> "Env"
      [] arg_name = "environment" -> "Environment"
      [] arg_name = "event" -> "Event"
      [] arg_name = "extension" -> "Extension"
      [] arg_name = "handle_status" -> "HandleStatus"
      [] arg_name = "impl" -> "Impl"
      [] arg_name = "keep_attr" -> "KeepAttr"
      [] arg_name = "message" -> "Message"
      [] arg_name = "namespace" -> "Namespace"
      [] arg_name = "payable" -> "Payable"
      [] arg_name = "selector" -> "Selector"
      [] arg_name = "storage" -> "Storage"
      [] arg_name = "topic" -> "Topic"
      [] OTHER -> "Unknown"

\* A rank that puts the complementary arguments first.
ink_arg_kind_sort_order_swapped(arg_kind) ==
    IF arg_kind \in {"Constructor", "Event", "Extension", "Impl", "Message",
                     "Storage", "Topic"} THEN 1
    ELSE IF arg_kind = "Unknown" THEN 10
    ELSE 0

\* fn ink_arg_kind_sort_order
ink_arg_kind_sort_order(arg_kind) ==
    IF arg_kind \in {"Constructor", "Event", "Extension", "Impl", "Message",
                     "Storage", "Topic"} THEN 0
    ELSE IF arg_kind \in {"AdditionalContracts", "Anonymous", "Default",
                          "Derive", "Env", "Environment", "HandleStatus",
                          "KeepAttr", "Namespace", "Payable", "Selector"} THEN 1
    ELSE 10

\* impl Ord for InkArg: arguments compare by the rank of their kind only.
InkArgRank(arg) == ink_arg_kind_sort_order(arg.kind)

\* impl From<MetaNameValue> for InkArg: the kind comes from the name's text.
InkArgFrom(meta) == [kind |-> InkArgKindFrom(meta.name), meta |-> meta]

\* ------------------------------------------------------------------------
\* crates/ir/src/attrs.rs
\* ------------------------------------------------------------------------
InkMacroKind ==
    {"ChainExtension", "Contract", "StorageItem", "Test", "TraitDefinition",
     "E2ETest", "Unknown"}

\* A lookup that ignores the crate segment.
InkMacroKindFromAnyCrate(crate, ink_macro) ==
    CASE ink_macro = "chain_extension" -> "ChainExtension"
      [] ink_macro = "contract" -> "Contract"
      [] ink_macro = "storage_item" -> "StorageItem"
      [] ink_macro = "test" -> IF crate = "ink_e2e" THEN "E2ETest" ELSE "Test"
      [] ink_macro = "trait_definition" -> "TraitDefinition"
      [] OTHER -> "Unknown"

\* impl From<(&str, &str)> for InkMacroKind
InkMacroKindFrom(crate, ink_macro) ==
    IF crate = "ink" THEN
        CASE ink_macro = "chain_extension" -> "ChainExtension"
          [] ink_macro = "contract" -> "Contract"
          [] ink_macro = "storage_item" -> "StorageItem"
          [] ink_macro = "test" -> "Test"
          [] ink_macro = "trait_definition" -> "TraitDefinition"
          [] OTHER -> "Unknown"
    ELSE IF crate = "ink_e2e" /\ ink_macro = "test" THEN "E2ETest"
    ELSE "Unknown"

\* InkMacroKind::path_as_str
path_as_str(macro_kind) ==
    CASE macro_kind = "ChainExtension" -> "ink::chain_extension"
      [] macro_kind = "Contract" -> "ink::contract"
      [] macro_kind = "StorageItem" -> "ink::storage_item"
      [] macro_kind = "Test" -> "ink::test"
      [] macro_kind = "TraitDefinition" -> "ink::trait_definition"
      [] macro_kind = "E2ETest" -> "ink_e2e::test"
      [] OTHER -> ""

Macro(k) == [tag |-> "Macro", kind |-> k]
Arg(k) == [tag |-> "Arg", kind |-> k]

\* utils::parse_ink_args: every meta item of the attribute's token tree, in
\* source order, whatever its name; nothing without a token tree.
parse_ink_args(a) ==
    IF a.token_tree THEN [i \in 1..Len(a.metas) |-> InkArgFrom(a.metas[i])]
    ELSE <<>>

\* The arguments with their sort keys.
KeyedArgs(args) == [i \in 1..Len(args) |-> [k |-> InkArgRank(args[i]), v |-> args[i]]]

\* A sort of the arguments that does not keep source order on ties.
SortedArgsUnstable(args) == UnstableSort(KeyedArgs(args))

\* args.iter().sorted(): a stable sort by rank.
SortedArgs(args) == StableSort(KeyedArgs(args))

\* A primary argument chosen by position, not by rank.
PrimaryArgFirstInSource(args) == Head(args)

\* The "primary" argument of a non-empty argument list.
PrimaryArg(args) == Head(SortedArgs(args))

\* A classification that looks at the arguments even without a token tree
\* and never yields Macro(Unknown) for a one-segment path.
NoSegmentKindArgOnly(a, args) ==
    IF args = <<>> THEN Arg("Unknown") ELSE Arg(PrimaryArg(args).kind)

\* InkAttribute::cast, the arm for a path of one segment.
NoSegmentKind(a, args) ==
    IF args = <<>> THEN
        IF a.token_tree THEN Arg("Unknown") ELSE Macro("Unknown")
    ELSE Arg(PrimaryArg(args).kind)

\* A classification that prefers a known argument over an unknown macro.
MacroSegmentKindArgFallback(a, args) ==
    IF Len(a.path) > 2 \/ InkMacroKindFrom(a.path[1], a.path[2]) = "Unknown"
    THEN (IF args = <<>> THEN Macro("Unknown") ELSE Arg(PrimaryArg(args).kind))
    ELSE Macro(InkMacroKindFrom(a.path[1], a.path[2]))

\* InkAttribute::cast, the arm for a path of two or more segments.
MacroSegmentKind(a, args) ==
    IF Len(a.path) > 2 THEN Macro("Unknown")
    ELSE Macro(InkMacroKindFrom(a.path[1], a.path[2]))

\* A guard that accepts any first segment starting the reserved way.
IsInkCrateNameLoose(name) == name \in {"ink", "ink_e2e", "inkwell"}

\* matches!(ink_crate_name.as_str(), "ink" | "ink_e2e")
IsInkCrateName(name) == name \in {"ink", "ink_e2e"}

\* InkAttribute::cast
InkAttributeCast(a) ==
    IF ~a.has_path \/ a.path = <<>> THEN None
    ELSE IF ~IsInkCrateName(a.path[1]) THEN None
    ELSE LET args == parse_ink_args(a)
         IN  Some([kind |-> IF Len(a.path) >= 2 THEN MacroSegmentKind(a, args)
                       ELSE NoSegmentKind(a, args),
              args |-> args,
              ast |-> a])

\* ------------------------------------------------------------------------
\* The attributes the classifier is applied to.
\* ------------------------------------------------------------------------
NoValue == "NoValue"

Meta(name, value) == [name |-> name, value |-> value]

\* Meta items of a generated token tree: entity-type, complementary and
\* unknown names, with and without a value.
MetaPool ==
    {Meta("message", NoValue), Meta("constructor", NoValue),
     Meta("payable", NoValue), Meta("selector", "1"),
     Meta("unknown", NoValue), Meta("xyz", "\"abc\"")}

FirstSegments == {"ink", "ink_e2e", "cfg_attr", "inkwell"}
SecondSegments ==
    {"chain_extension", "contract", "storage_item", "test",
     "trait_definition", "unknown", ""}
MoreSegments == {"contract", "xyz"}

AttrPaths ==
    {p \in SeqsUpTo(FirstSegments \cup SecondSegments \cup MoreSegments, MaxSegs) :
        /\ Len(p) >= 1 => p[1] \in FirstSegments
        /\ Len(p) >= 2 => p[2] \in SecondSegments
        /\ \A i \in 3..Len(p) : p[i] \in MoreSegments}

Attr(has_path, path, token_tree, metas) ==
    [has_path |-> has_path, path |-> path, token_tree |-> token_tree, metas |-> metas]

\* Every attribute the parser can hand over: no path at all, or a path with
\* or without a token tree; meta items exist only inside a token tree.
CastInputs ==
    {Attr(FALSE, <<>>, FALSE, <<>>), Attr(FALSE, <<>>, TRUE, <<Meta("message", NoValue)>>)}
    \cup {Attr(TRUE, p, FALSE, <<>>) : p \in AttrPaths}
    \cup {Attr(TRUE, p, TRUE, m) : p \in AttrPaths, m \in SeqsUpTo(MetaPool, MaxArgs)}


\* ------------------------------------------------------------------------
\* Specification of InkAttribute::cast.
\* ------------------------------------------------------------------------
CastInit ==
    /\ pc = "start"
    /\ project_name = None /\ project = None /\ kind_in = None /\ kind_out = None
    /\ item_focus = None /\ entity_call = None
    /\ attr \in CastInputs
    /\ castOut = None
    /\ item = None /\ flatOut = None /\ item2 = None /\ flatOut2 = None
    /\ params = None /\ recvOut = None /\ params2 = None /\ recvOut2 = None
    /\ file = None /\ range = None /\ focus = None /\ results = None
    /\ entity = None /\ diags = None /\ kinds = None /\ ordering = None
    /\ context = None /\ suggested = None

Cast ==
    /\ pc = "start"
    /\ pc' = "cast"
    /\ castOut' = InkAttributeCast(attr)
    /\ UNCHANGED <<attr, item, flatOut, item2, flatOut2, params, recvOut,
                   params2, recvOut2, file, range, focus, results,
                   entity, diags, kinds, ordering, context, suggested,
                   item_focus, entity_call,
                   project_name, project, kind_in, kind_out>>

CastNext == Cast

SpecCast == CastInit /\ [][CastNext]_vars

\* ------------------------------------------------------------------------
\* crates/analyzer/src/analysis/actions/item.rs: flatten_attrs
\* ------------------------------------------------------------------------
\* A text is a sequence of pieces, the strings a format!/join writes one after
\* the other; Concat is the String it builds.
RECURSIVE Concat(_)
Concat(pieces) ==
    IF pieces = <<>> THEN "" ELSE Head(pieces) \o Concat(Tail(pieces))

RECURSIVE Flat(_)
\* The concatenation of a sequence of sequences.
Flat(seqs) == IF seqs = <<>> THEN <<>> ELSE Head(seqs) \o Flat(Tail(seqs))

RECURSIVE Interleave(_, _)
\* Itertools::join on texts: the separator between consecutive elements.
Interleave(texts, sep) ==
    IF texts = <<>> THEN <<>>
    ELSE IF Len(texts) = 1 THEN texts[1]
    ELSE texts[1] \o <<sep>> \o Interleave(Tail(texts), sep)

\* The text of a meta item as written in the source of the target.
MetaSource(meta) ==
    IF meta.value = NoValue THEN <<meta.name>> ELSE <<meta.name, "=", meta.value>>

\* The text of an attribute as written in the source of the target.
AttrSource(a) ==
    <<"#[">>
    \o (IF a.has_path THEN Interleave([i \in 1..Len(a.path) |-> <<a.path[i]>>], "::")
        ELSE <<>>)
    \o (IF a.token_tree
        THEN <<"(">> \o Interleave([i \in 1..Len(a.metas) |-> MetaSource(a.metas[i])], ", ")
             \o <<")">>
        ELSE <<>>)
    \o <<"]">>

RECURSIVE AttrStart(_, _)
\* Attributes of a target follow each other, one per line.
AttrStart(attrs, i) ==
    IF i = 1 THEN 0
    ELSE AttrStart(attrs, i - 1) + Len(Concat(AttrSource(attrs[i - 1]))) + 1

\* attr.syntax().text_range() of the i-th attribute of the target.
AttrRange(attrs, i) ==
    <<AttrStart(attrs, i), AttrStart(attrs, i) + Len(Concat(AttrSource(attrs[i])))>>

\* The declaration of the target starts on the line after its attributes.
DeclarationRange(attrs) ==
    LET start == AttrStart(attrs, Len(attrs) + 1) IN <<start, start + 10>>

\* A target syntax node: its kind, its attributes, the offset of its first
\* attribute (or first token), the offset of its first token after the
\* attributes and the attributes of the modules around it (none unless set).
Target(kind, attrs, start, first_token) ==
    [kind |-> kind, attrs |-> attrs, start |-> start, first_token |-> first_token,
     parent_attrs |-> <<>>]

\* ink_analyzer_ir::ink_attrs: the attributes of the target that cast to an
\* InkAttribute, in source order, each with its text range.
ink_attrs(target) ==
    LET attrs == target.attrs
        idx == SelectSeq([i \in 1..Len(attrs) |-> i],
                         LAMBDA i : InkAttributeCast(attrs[i]) # None)
    IN  [n \in 1..Len(idx) |->
            [kind |-> InkAttributeCast(attrs[idx[n]])[1].kind,
             args |-> InkAttributeCast(attrs[idx[n]])[1].args,
             ast |-> attrs[idx[n]],
             text_range |-> <<target.start + AttrRange(attrs, idx[n])[1],
                              target.start + AttrRange(attrs, idx[n])[2]>>]]

\* impl Ord for InkAttributeKind as a sort key: every macro before every
\* argument, macros equal among themselves, arguments by their rank.
InkAttributeKindOrder(kind) ==
    IF kind.tag = "Macro" THEN -1 ELSE ink_arg_kind_sort_order(kind.kind)

KeyedAttrs(inks) ==
    [i \in 1..Len(inks) |-> [k |-> InkAttributeKindOrder(inks[i].kind), v |-> inks[i]]]

\* A sort of the attributes that does not keep source order on ties.
SortedInkAttrsUnstable(target) == UnstableSort(KeyedAttrs(ink_attrs(target)))

\* ink_attrs(target).sorted()
SortedInkAttrs(target) == StableSort(KeyedAttrs(ink_attrs(target)))

\* Other attributes kept whatever their kind.
OtherArgAttrsAll(sorted) == Tail(sorted)

\* attrs.filter(|attr| matches!(attr.kind(), InkAttributeKind::Arg(_))) on the
\* attributes after the primary candidate.
OtherArgAttrs(sorted) == SelectSeq(Tail(sorted), LAMBDA a : a.kind.tag = "Arg")

\* impl Display for InkArg (MetaNameValue): `name`, or `name = value`.
InkArgDisplay(arg) ==
    IF arg.meta.value = NoValue THEN <<arg.meta.name>>
    ELSE <<arg.meta.name, " = ", arg.meta.value>>

\* The merged arguments in chaining order, without the sort by priority.
FlattenArgsUnsorted(primary, others) ==
    primary.args \o Flat([i \in 1..Len(others) |-> others[i].args])

\* The arguments of the primary chained with those of the other argument
\* attributes, .sorted() by priority.
FlattenArgs(primary, others) ==
    SortedArgs(primary.args \o Flat([i \in 1..Len(others) |-> others[i].args]))

\* A path that is always `ink`.
FlattenPathInkOnly(primary) == "ink"

\* The path written into the replacement attribute.
FlattenPath(primary) ==
    IF primary.kind.tag = "Macro" THEN path_as_str(primary.kind.kind) ELSE "ink"

\* TextEdit::replace / TextEdit::delete
TextEditReplace(text, text_range) == [text |-> text, range |-> text_range]
TextEditDelete(text_range) == [text |-> <<>>, range |-> text_range]

\* Edits that replace the primary and leave the other attributes in place.
FlattenEditsNoDelete(primary, others) ==
    <<TextEditReplace(
        <<"#[", FlattenPath(primary), "(">>
        \o Interleave([i \in 1..Len(FlattenArgs(primary, others)) |->
                          InkArgDisplay(FlattenArgs(primary, others)[i])], ", ")
        \o <<")]">>,
        primary.text_range)>>

\* The edits of the Flatten action.
FlattenEdits(primary, others) ==
    <<TextEditReplace(
        <<"#[", FlattenPath(primary), "(">>
        \o Interleave([i \in 1..Len(FlattenArgs(primary, others)) |->
                          InkArgDisplay(FlattenArgs(primary, others)[i])], ", ")
        \o <<")]">>,
        primary.text_range)>>
    \o [i \in 1..Len(others) |-> TextEditDelete(others[i].text_range)]

\* fn flatten_attrs: the actions it pushes for a target and the declaration
\* range `decl_range`.
flatten_attrs(target, decl_range) ==
    LET sorted == SortedInkAttrs(target) IN
    IF sorted = <<>> THEN <<>>
    ELSE LET primary_candidate == Head(sorted)
             other_arg_attrs == OtherArgAttrs(sorted) IN
         IF other_arg_attrs = <<>> THEN <<>>
         ELSE <<[label |-> "Flatten ink! attribute arguments.",
                 kind |-> "Refactor",
                 range |-> decl_range,
                 edits |-> FlattenEdits(primary_candidate, other_arg_attrs)]>>

\* ------------------------------------------------------------------------
\* Applying the edits of an action and parsing the result again.
\* ------------------------------------------------------------------------
\* The segments of a path text.
PathSegments(text) ==
    CASE text = "" -> <<>>
      [] text = "ink" -> <<"ink">>
      [] text = "ink::chain_extension" -> <<"ink", "chain_extension">>
      [] text = "ink::contract" -> <<"ink", "contract">>
      [] text = "ink::storage_item" -> <<"ink", "storage_item">>
      [] text = "ink::test" -> <<"ink", "test">>
      [] text = "ink::trait_definition" -> <<"ink", "trait_definition">>
      [] text = "ink_e2e::test" -> <<"ink_e2e", "test">>
      [] OTHER -> <<text>>

RECURSIVE ParseMetas(_)
\* The meta items of the pieces between the parentheses of an attribute.
ParseMetas(ps) ==
    IF ps = <<>> THEN <<>>
    ELSE IF ps[1] = ", " THEN ParseMetas(Tail(ps))
    ELSE IF Len(ps) >= 3 /\ ps[2] = " = "
         THEN <<Meta(ps[1], ps[3])>> \o ParseMetas(SubSeq(ps, 4, Len(ps)))
    ELSE <<Meta(ps[1], NoValue)>> \o ParseMetas(Tail(ps))

\* The attribute the parser builds from the text `#[<path>(<args>)]`: an
\* empty path text leaves the attribute without a path.
ParseAttr(text) ==
    Attr(text[2] # "", PathSegments(text[2]), TRUE,
         ParseMetas(SubSeq(text, 4, Len(text) - 1)))

RECURSIVE ApplyEditsFrom(_, _, _)
\* Applies edits given in original coordinates to the attributes of the
\* target: an attribute whose range an edit names is removed (empty text) or
\* replaced by the parse of the edit's text.
ApplyEditsFrom(attrs, i, edits) ==
    IF i > Len(attrs) THEN <<>>
    ELSE LET hits == SelectSeq(edits, LAMBDA e : e.range = AttrRange(attrs, i)) IN
         (IF hits = <<>> THEN <<attrs[i]>>
          ELSE IF hits[1].text = <<>> THEN <<>>
          ELSE <<ParseAttr(hits[1].text)>>)
         \o ApplyEditsFrom(attrs, i + 1, edits)

ApplyEdits(attrs, edits) == ApplyEditsFrom(attrs, 1, edits)

\* ------------------------------------------------------------------------
\* Specification of flatten_attrs: flatten, apply the edits, flatten again.
\* ------------------------------------------------------------------------
\* The attributes a target is generated with.
FlattenAttrPool ==
    {Attr(TRUE, <<"ink">>, TRUE, <<Meta("constructor", NoValue)>>),
     Attr(TRUE, <<"ink">>, TRUE, <<Meta("message", NoValue)>>),
     Attr(TRUE, <<"ink">>, TRUE, <<Meta("selector", "1")>>),
     Attr(TRUE, <<"ink">>, TRUE, <<Meta("default", NoValue), Meta("payable", NoValue)>>),
     Attr(TRUE, <<"ink">>, TRUE, <<Meta("payable", NoValue), Meta("message", NoValue)>>),
     Attr(TRUE, <<"ink">>, TRUE, <<Meta("xyz", NoValue)>>),
     Attr(TRUE, <<"ink">>, TRUE, <<Meta("keep_attr", "\"foo,bar\"")>>),
     Attr(TRUE, <<"ink">>, TRUE, <<>>),
     Attr(TRUE, <<"ink">>, FALSE, <<>>),
     Attr(TRUE, <<"ink", "contract">>, FALSE, <<>>),
     Attr(TRUE, <<"ink", "contract">>, TRUE, <<Meta("env", "crate::Environment")>>),
     Attr(TRUE, <<"ink", "xyz">>, FALSE, <<>>),
     Attr(TRUE, <<"ink_e2e", "test">>, FALSE, <<>>),
     Attr(TRUE, <<"ink_e2e">>, TRUE, <<Meta("environment", "crate::")>>),
     Attr(TRUE, <<"foo">>, FALSE, <<>>)}

\* The target is a function whose attributes start the file.
FlattenTarget(attrs) == Target("FN", attrs, 0, AttrStart(attrs, Len(attrs) + 1))

FlattenInit ==
    /\ pc = "start"
    /\ project_name = None /\ project = None /\ kind_in = None /\ kind_out = None
    /\ item_focus = None /\ entity_call = None
    /\ item \in SeqsUpTo(FlattenAttrPool, MaxAttrs)
    /\ flatOut = None /\ item2 = None /\ flatOut2 = None
    /\ attr = None /\ castOut = None
    /\ params = None /\ recvOut = None /\ params2 = None /\ recvOut2 = None
    /\ file = None /\ range = None /\ focus = None /\ results = None
    /\ entity = None /\ diags = None /\ kinds = None /\ ordering = None
    /\ context = None /\ suggested = None

Flatten ==
    /\ pc = "start"
    /\ pc' = "flattened"
    /\ flatOut' = flatten_attrs(FlattenTarget(item), DeclarationRange(item))
    /\ UNCHANGED <<attr, castOut, item, item2, flatOut2, params, recvOut,
                   params2, recvOut2, file, range, focus, results,
                   entity, diags, kinds, ordering, context, suggested,
                   item_focus, entity_call,
                   project_name, project, kind_in, kind_out>>

\* The editor applies all edits of the offered action in one pass.
ApplyFlatten ==
    /\ pc = "flattened"
    /\ flatOut # <<>>
    /\ pc' = "applied"
    /\ item2' = ApplyEdits(item, flatOut[1].edits)
    /\ UNCHANGED <<attr, castOut, item, flatOut, flatOut2, params, recvOut,
                   params2, recvOut2, file, range, focus, results,
                   entity, diags, kinds, ordering, context, suggested,
                   item_focus, entity_call,
                   project_name, project, kind_in, kind_out>>

Reflatten ==
    /\ pc = "applied"
    /\ pc' = "reflattened"
    /\ flatOut2' = flatten_attrs(FlattenTarget(item2), DeclarationRange(item2))
    /\ UNCHANGED <<attr, castOut, item, flatOut, item2, params, recvOut,
                   params2, recvOut2, file, range, focus, results,
                   entity, diags, kinds, ordering, context, suggested,
                   item_focus, entity_call,
                   project_name, project, kind_in, kind_out>>

FlattenNext == Flatten \/ ApplyFlatten \/ Reflatten

SpecFlatten == FlattenInit /\ [][FlattenNext]_vars

\* ------------------------------------------------------------------------
\* Properties of InkAttribute::cast.
\* ------------------------------------------------------------------------
EntityTypeKinds ==
    {"Storage", "Event", "Impl", "Constructor", "Message", "Extension", "Topic"}

\* The priority rank of an argument kind: 0 entity-type, 1 complementary,
\* 10 Unknown.
PriorityRank(k) ==
    IF k \in EntityTypeKinds THEN 0 ELSE IF k = "Unknown" THEN 10 ELSE 1

\* The kind of the first argument, in source order, among those of minimal
\* priority rank.
FirstOfMinimalRank(args) ==
    LET i == CHOOSE i \in 1..Len(args) :
                /\ \A j \in 1..Len(args) :
                      PriorityRank(args[i].kind) <= PriorityRank(args[j].kind)
                /\ \A j \in 1..(i - 1) :
                      PriorityRank(args[j].kind) > PriorityRank(args[i].kind)
    IN  args[i].kind

MetaNames(a) == [i \in 1..Len(a.metas) |-> a.metas[i].name]

IsArgAttrWithArgs(a) ==
    /\ a.has_path /\ Len(a.path) = 1 /\ a.path[1] \in {"ink", "ink_e2e"}
    /\ a.token_tree /\ a.metas # <<>>

\* C1: cast on an attribute whose path is the single segment ink or ink_e2e
\* with at least one parsed argument returns kind = Arg(k), k the kind of the
\* first argument in source order among those of minimal priority rank; so
\* every permutation of (selector=1, payable, message) is Arg(Message),
\* (message, unknown) and (unknown, message) are Arg(Message), (constructor,
\* message) is Arg(Constructor) and (message, constructor) is Arg(Message).
C1_PrimaryKind ==
    (pc = "cast" /\ IsArgAttrWithArgs(attr)) =>
        /\ castOut # None
        /\ castOut[1].kind = Arg(FirstOfMinimalRank(castOut[1].args))
        /\ Len(castOut[1].args) = Len(attr.metas)
        /\ (Len(attr.metas) = 3
              /\ Range(MetaNames(attr)) = {"selector", "payable", "message"})
                => castOut[1].kind = Arg("Message")
        /\ Range(MetaNames(attr)) = {"message", "unknown"}
                => castOut[1].kind = Arg("Message")
        /\ MetaNames(attr) = <<"constructor", "message">>
                => castOut[1].kind = Arg("Constructor")
        /\ MetaNames(attr) = <<"message", "constructor">>
                => castOut[1].kind = Arg("Message")

C1_Witness ==
    /\ pc = "cast"
    /\ attr.path = <<"ink">>
    /\ MetaNames(attr) = <<"selector", "payable", "message">>
    /\ castOut[1].kind = Arg("Message")

\* C2: for a path that is only the reserved segment and with zero parsed
\* arguments, cast returns Arg(Unknown) when a token tree is present and
\* Macro(Unknown) when none is; the args list is empty in both cases.
C2_NoArguments ==
    (/\ pc = "cast"
     /\ attr.has_path /\ Len(attr.path) = 1 /\ attr.path[1] \in {"ink", "ink_e2e"}
     /\ attr.metas = <<>>) =>
        /\ castOut # None
        /\ castOut[1].args = <<>>
        /\ castOut[1].kind =
              (IF attr.token_tree THEN Arg("Unknown") ELSE Macro("Unknown"))

C2_Witness ==
    /\ pc = "cast"
    /\ attr = Attr(TRUE, <<"ink">>, TRUE, <<>>)
    /\ castOut[1].kind = Arg("Unknown")

\* C3: cast returns None if and only if the attribute has no path, the path
\* has no segments, or its first segment is neither ink nor ink_e2e; every
\* other attribute, malformed ones included, yields Some.
C3_NoneIff ==
    pc = "cast" =>
        ((castOut = None) <=>
            (\/ ~attr.has_path
             \/ attr.path = <<>>
             \/ attr.path[1] \notin {"ink", "ink_e2e"}))

C3_Witness ==
    /\ pc = "cast"
    /\ attr.has_path /\ attr.path # <<>> /\ attr.path[1] = "inkwell"
    /\ attr.metas # <<>>
    /\ castOut = None

\* The table of known macro paths.
KnownMacro(first, second) ==
    CASE first = "ink" /\ second = "chain_extension" -> "ChainExtension"
      [] first = "ink" /\ second = "contract" -> "Contract"
      [] first = "ink" /\ second = "storage_item" -> "StorageItem"
      [] first = "ink" /\ second = "test" -> "Test"
      [] first = "ink" /\ second = "trait_definition" -> "TraitDefinition"
      [] first = "ink_e2e" /\ second = "test" -> "E2ETest"
      [] OTHER -> "Unknown"

\* C4: whenever the path has a second segment, cast returns a Macro kind
\* whatever the arguments: the table lookup of (first, second) with exactly
\* two segments, Macro(Unknown) with three or more.
C4_MacroKind ==
    (pc = "cast" /\ castOut # None /\ Len(attr.path) >= 2) =>
        /\ castOut[1].kind.tag = "Macro"
        /\ Len(attr.path) = 2 =>
              castOut[1].kind = Macro(KnownMacro(attr.path[1], attr.path[2]))
        /\ Len(attr.path) >= 3 => castOut[1].kind = Macro("Unknown")

C4_Witness ==
    /\ pc = "cast"
    /\ attr.path = <<"ink_e2e", "contract">>
    /\ MetaNames(attr) = <<"message">>
    /\ castOut[1].kind = Macro("Unknown")

\* ------------------------------------------------------------------------
\* Properties of flatten_attrs.
\* ------------------------------------------------------------------------
\* Attribute-kind order: macros before arguments, arguments by priority rank.
KindOrder(kind) == IF kind.tag = "Macro" THEN -1 ELSE PriorityRank(kind.kind)

\* The positions, in the target, of its ink! attributes stably sorted by
\* attribute-kind order.
SortedInkPositions(attrs) ==
    LET idx == SelectSeq([i \in 1..Len(attrs) |-> i],
                         LAMBDA i : InkAttributeCast(attrs[i]) # None)
    IN  StableSort([n \in 1..Len(idx) |->
            [k |-> KindOrder(InkAttributeCast(attrs[idx[n]])[1].kind), v |-> idx[n]]])

KindAt(attrs, i) == InkAttributeCast(attrs[i])[1].kind
ArgsAt(attrs, i) == InkAttributeCast(attrs[i])[1].args

\* The positions of the Arg-kind attributes other than the primary, in sorted
\* order.
OtherArgPositions(attrs) ==
    SelectSeq(Tail(SortedInkPositions(attrs)), LAMBDA i : KindAt(attrs, i).tag = "Arg")

HasPrimaryAndOtherArg(attrs) ==
    /\ SortedInkPositions(attrs) # <<>>
    /\ OtherArgPositions(attrs) # <<>>

\* The canonical text of an argument.
ArgText(arg) ==
    IF arg.meta.value = NoValue THEN arg.meta.name
    ELSE arg.meta.name \o " = " \o arg.meta.value

\* The text `#[<path>(<args>)]` of the merged attribute of a target.
MergedText(attrs) ==
    LET P == Head(SortedInkPositions(attrs))
        others == OtherArgPositions(attrs)
        chained == ArgsAt(attrs, P) \o Flat([n \in 1..Len(others) |-> ArgsAt(attrs, others[n])])
        merged == StableSort([n \in 1..Len(chained) |->
                      [k |-> PriorityRank(chained[n].kind), v |-> chained[n]]])
    IN  "#[" \o (IF KindAt(attrs, P).tag = "Macro" THEN path_as_str(KindAt(attrs, P).kind)
                 ELSE "ink")
        \o "(" \o JoinWith([n \in 1..Len(merged) |-> ArgText(merged[n])], ", ") \o ")]"

ConstructorExample ==
    <<Attr(TRUE, <<"ink">>, TRUE, <<Meta("constructor", NoValue)>>),
      Attr(TRUE, <<"ink">>, TRUE, <<Meta("selector", "1")>>),
      Attr(TRUE, <<"ink">>, TRUE, <<Meta("default", NoValue), Meta("payable", NoValue)>>)>>

\* C5: for a target whose ink! attributes, stably sorted by attribute-kind
\* order, have first element P and at least one other Arg-kind attribute,
\* exactly one Flatten action is pushed; its first edit replaces P's range with
\* `#[<path>(<args>)]` (the macro's path for a Macro, `ink` for an Arg; P's
\* arguments followed by those of every other Arg-kind attribute, stably
\* sorted by rank, joined with ", "), and the remaining edits delete each of
\* the other Arg-kind attributes.
C5_FlattenAction ==
    (pc # "start" /\ HasPrimaryAndOtherArg(item)) =>
        /\ Len(flatOut) = 1
        /\ flatOut[1].label = "Flatten ink! attribute arguments."
        /\ flatOut[1].edits[1].range = AttrRange(item, Head(SortedInkPositions(item)))
        /\ Concat(flatOut[1].edits[1].text) = MergedText(item)
        /\ Len(flatOut[1].edits) = 1 + Len(OtherArgPositions(item))
        /\ \A n \in 1..Len(OtherArgPositions(item)) :
              \E m \in 2..Len(flatOut[1].edits) :
                  flatOut[1].edits[m] =
                      [text |-> <<>>, range |-> AttrRange(item, OtherArgPositions(item)[n])]
        /\ item = ConstructorExample =>
              /\ Concat(flatOut[1].edits[1].text)
                    = "#[ink(constructor, selector = 1, default, payable)]"
              /\ Len(flatOut[1].edits) = 3

C5_Witness ==
    /\ pc = "flattened"
    /\ item = ConstructorExample
    /\ Len(flatOut) = 1
    /\ Concat(flatOut[1].edits[1].text) = "#[ink(constructor, selector = 1, default, payable)]"

\* C6: after all edits of a Flatten action are applied, flatten_attrs on the
\* resulting item pushes no Flatten action.
C6_FlattenIdempotent ==
    pc = "reflattened" => flatOut2 = <<>>

C6_Witness ==
    /\ pc = "reflattened"
    /\ item = ConstructorExample
    /\ Len(flatOut[1].edits) = 3
    /\ Len(item2) = 1
    /\ InkAttributeCast(item2[1]) # None
    /\ flatOut2 = <<>>

\* ------------------------------------------------------------------------
\* crates/analyzer/src/analysis/diagnostics/message.rs: the receiver of an
\* ink! message.  A function is its source text, a sequence of pieces; the
\* lexer and the parameter-list parser are those of the Rust syntax library.
\* ------------------------------------------------------------------------
MaxParams == 2

\* The pieces that consist of identifier characters.
WordPieces == {"fn", "my_message", "self", "mut", "this", "Self", "a", "b", "u8", "bool"}

RECURSIVE LexFrom(_, _, _, _)
\* The tokens of a text: adjacent identifier characters form one token,
\* whitespace (also the one after a comma) separates tokens and is dropped.  `cur` is the identifier being
\* read, which started at `start`; `pos` is the offset of the next piece.
LexFrom(cur, start, pos, ps) ==
    LET flush == IF cur = "" THEN <<>>
                 ELSE <<[text |-> cur, range |-> <<start, pos>>]>> IN
    IF ps = <<>> THEN flush
    ELSE IF Head(ps) \in WordPieces
         THEN LexFrom(cur \o Head(ps), IF cur = "" THEN pos ELSE start,
                      pos + Len(Head(ps)), Tail(ps))
    ELSE flush
         \o (IF Head(ps) = " " THEN <<>>
             ELSE IF Head(ps) = ", " THEN <<[text |-> ",", range |-> <<pos, pos + 1>>]>>
             ELSE <<[text |-> Head(ps), range |-> <<pos, pos + Len(Head(ps))>>]>>)
         \o LexFrom("", pos, pos + Len(Head(ps)), Tail(ps))

Lex(ps) == LexFrom("", 0, 0, ps)

\* The index of the first token with the given text at or after i (0: none).
RECURSIVE TokenIndex(_, _, _)
TokenIndex(toks, text, i) ==
    IF i > Len(toks) THEN 0
    ELSE IF toks[i].text = text THEN i
    ELSE TokenIndex(toks, text, i + 1)

\* ast::Fn::param_list: the parenthesised list, if the function has one.
param_list(toks) ==
    LET l == TokenIndex(toks, "(", 1)
        r == IF l = 0 THEN 0 ELSE TokenIndex(toks, ")", l) IN
    IF l = 0 \/ r = 0 THEN None
    ELSE Some([l_paren_token |-> toks[l],
               r_paren_token |-> toks[r],
               inner |-> [i \in 1..(r - l - 1) |-> toks[l + i].text]])

\* The number of tokens a self parameter takes at the start of a parameter
\* list: `self`, `mut self`, `&self` or `&mut self` (0: no self parameter).
SelfParamLen(inner) ==
    IF Len(inner) >= 1 /\ inner[1] = "self" THEN 1
    ELSE IF Len(inner) >= 2 /\ inner[1] = "mut" /\ inner[2] = "self" THEN 2
    ELSE IF Len(inner) >= 2 /\ inner[1] = "&" /\ inner[2] = "self" THEN 2
    ELSE IF Len(inner) >= 3 /\ inner[1] = "&" /\ inner[2] = "mut" /\ inner[3] = "self" THEN 3
    ELSE 0

\* ast::ParamList::self_param, with ast::SelfParam::amp_token.
self_param(pl) ==
    IF SelfParamLen(pl.inner) = 0 THEN None
    ELSE Some([amp_token |-> pl.inner[1] = "&"])

RECURSIVE SkipAscription(_)
\* Drops the tokens of a type ascription up to the next separator.
SkipAscription(ts) ==
    IF ts = <<>> \/ Head(ts) = "," THEN ts ELSE SkipAscription(Tail(ts))

\* ast::ParamList::params: the tokens of the parameters other than the self
\* parameter.
params_tokens(pl) ==
    LET rest == SubSeq(pl.inner, SelfParamLen(pl.inner) + 1, Len(pl.inner))
        after == IF SelfParamLen(pl.inner) > 0 /\ rest # <<>> /\ Head(rest) = ":"
                 THEN SkipAscription(rest) ELSE rest IN
    SelectSeq(after, LAMBDA t : t # ",")

\* analysis_utils::ast_item_declaration_range of the function: from its
\* first token after the attributes through the opening brace of its body
\* or, without a body, through its semicolon; none for a function that has
\* neither.
FnDeclarationRange(fn_item, toks) ==
    LET start == toks[TokenIndex(toks, "fn", 1)].range[1]
        l_curly == TokenIndex(toks, "{", 1)
        semicolon == TokenIndex(toks, ";", 1) IN
    IF l_curly # 0 THEN Some(<<start, toks[l_curly].range[2]>>)
    ELSE IF semicolon # 0 THEN Some(<<start, toks[semicolon].range[2]>>)
    ELSE None

\* fn_item.syntax().text_range()
FnRange(fn_item) == <<0, Len(Concat(fn_item))>>

TextEditInsert(text, offset) == TextEditReplace(text, <<offset, offset>>)

\* A suffix that always separates the receiver from what follows it.
ReceiverSuffixAlways(has_more_params) == <<",", " ">>

\* let insert_suffix = if has_more_params { ", " } else { "" };
ReceiverSuffix(has_more_params) ==
    IF has_more_params THEN <<",", " ">> ELSE <<>>

\* The two quick-fixes of the receiver diagnostic.
ReceiverQuickfixes(pl, range_) ==
    LET insert_offset == pl.l_paren_token.range[2]
        has_more_params == params_tokens(pl) # <<>>
        insert_suffix == ReceiverSuffix(has_more_params) IN
    <<[label |-> "Add immutable self reference receiver",
       kind |-> "QuickFix",
       range |-> range_,
       edits |-> <<TextEditInsert(<<"&", "self">> \o insert_suffix, insert_offset)>>],
      [label |-> "Add mutable self reference receiver",
       kind |-> "QuickFix",
       range |-> range_,
       edits |-> <<TextEditInsert(<<"&", "mut", " ", "self">> \o insert_suffix,
                                  insert_offset)>>]>>

\* A receiver test that accepts every self parameter.
has_self_receiver(pl) ==
    /\ pl # None
    /\ self_param(pl[1]) # None

\* fn ensure_receiver_is_self_ref: has_self_ref_receiver
has_self_ref_receiver(pl) ==
    /\ pl # None
    /\ self_param(pl[1]) # None
    /\ self_param(pl[1])[1].amp_token

\* fn ensure_receiver_is_self_ref (the message is written without the
\* backquotes around its two receivers).
ensure_receiver_is_self_ref(fn_item) ==
    LET toks == Lex(fn_item)
        pl == param_list(toks)
        range_ == IF FnDeclarationRange(fn_item, toks) # None
                  THEN FnDeclarationRange(fn_item, toks)[1]
                  ELSE FnRange(fn_item) IN
    IF has_self_ref_receiver(pl) THEN None
    ELSE Some([message |-> "ink! message must have a self reference receiver (i.e &self or &mut self).",
               range |-> range_,
               severity |-> "Error",
               quickfixes |-> IF pl = None THEN None
                              ELSE Some(ReceiverQuickfixes(pl[1], range_))])

RECURSIVE InsertAt(_, _, _)
\* The text with the pieces `text` inserted at the offset, which is the
\* boundary of a piece.
InsertAt(ps, offset, text) ==
    IF offset = 0 THEN text \o ps
    ELSE IF ps = <<>> THEN text
    ELSE <<Head(ps)>> \o InsertAt(Tail(ps), offset - Len(Head(ps)), text)

\* The texts of the first parameter of the generated functions.
FirstParams ==
    {<<>>,
     <<"self">>,
     <<"mut", " ", "self">>,
     <<"&", "self">>,
     <<"&", "mut", " ", "self">>,
     <<"this", ":", " ", "&", "Self">>,
     <<"this", ":", " ", "&", "mut", " ", "Self">>,
     <<"self", ":", " ", "&", "Self">>}

\* The texts of the further parameters of the generated functions.
MoreParams == {<<"a", ":", " ", "u8">>, <<"b", ":", " ", "bool">>}

\* The text between the parentheses of a function with the given parameters.
ParamsText(first, more) ==
    Interleave((IF first = <<>> THEN <<>> ELSE <<first>>) \o more, ", ")

\* `#[ink(message)] fn my_message(<parameters>) {}`, or the same without a
\* parameter list.
FnText(has_params, ps) ==
    <<"#[ink(message)]", " ", "fn", " ", "my_message">>
    \o (IF has_params THEN <<"(">> \o ps \o <<")">> ELSE <<>>)
    \o <<" ", "{", "}">>

\* The same function as a declaration, `fn my_message(<parameters>);`,
\* and cut off after its parameter list.
FnTextWithoutBody(ps, semicolon) ==
    <<"#[ink(message)]", " ", "fn", " ", "my_message", "(">> \o ps \o <<")">>
    \o (IF semicolon THEN <<";">> ELSE <<>>)

ReceiverInputs ==
    {FnText(TRUE, ParamsText(first, more)) :
        first \in FirstParams, more \in SeqsUpTo(MoreParams, MaxParams)}
    \cup {FnText(FALSE, <<>>)}
    \cup {FnTextWithoutBody(ParamsText(first, <<>>), semicolon) :
            first \in FirstParams, semicolon \in BOOLEAN}

ReceiverInit ==
    /\ pc = "start"
    /\ project_name = None /\ project = None /\ kind_in = None /\ kind_out = None
    /\ item_focus = None /\ entity_call = None
    /\ params \in ReceiverInputs
    /\ recvOut = None /\ params2 = None /\ recvOut2 = None
    /\ attr = None /\ castOut = None
    /\ item = None /\ flatOut = None /\ item2 = None /\ flatOut2 = None
    /\ file = None /\ range = None /\ focus = None /\ results = None
    /\ entity = None /\ diags = None /\ kinds = None /\ ordering = None
    /\ context = None /\ suggested = None

CheckReceiver ==
    /\ pc = "start"
    /\ pc' = "checked"
    /\ recvOut' = ensure_receiver_is_self_ref(params)
    /\ UNCHANGED <<attr, castOut, item, flatOut, item2, flatOut2, params,
                   params2, recvOut2, file, range, focus, results,
                   entity, diags, kinds, ordering, context, suggested,
                   item_focus, entity_call,
                   project_name, project, kind_in, kind_out>>

\* The user picks one of the offered quick-fixes and the editor applies its
\* edit to the text.
ApplyQuickfix ==
    /\ pc = "checked"
    /\ recvOut # None
    /\ recvOut[1].quickfixes # None
    /\ \E i \in 1..Len(recvOut[1].quickfixes[1]) :
          LET edit == recvOut[1].quickfixes[1][i].edits[1] IN
          params2' = InsertAt(params, edit.range[1], edit.text)
    /\ pc' = "fixed"
    /\ UNCHANGED <<attr, castOut, item, flatOut, item2, flatOut2, params,
                   recvOut, recvOut2, file, range, focus, results,
                   entity, diags, kinds, ordering, context, suggested,
                   item_focus, entity_call,
                   project_name, project, kind_in, kind_out>>

RecheckReceiver ==
    /\ pc = "fixed"
    /\ pc' = "rechecked"
    /\ recvOut2' = ensure_receiver_is_self_ref(params2)
    /\ UNCHANGED <<attr, castOut, item, flatOut, item2, flatOut2, params,
                   recvOut, params2, file, range, focus, results,
                   entity, diags, kinds, ordering, context, suggested,
                   item_focus, entity_call,
                   project_name, project, kind_in, kind_out>>

ReceiverNext == CheckReceiver \/ ApplyQuickfix \/ RecheckReceiver

SpecReceiver == ReceiverInit /\ [][ReceiverNext]_vars

\* ------------------------------------------------------------------------
\* Properties of ensure_receiver_is_self_ref.
\* ------------------------------------------------------------------------
\* C7: for every function flagged by ensure_receiver_is_self_ref, applying
\* the edit of either offered quick-fix to the original text and running the
\* check again does not reproduce the diagnostic.
C7_QuickfixRoundTrip ==
    pc = "rechecked" => recvOut2 = None

\* The by-value receiver: `fn my_message(self) {}` becomes
\* `fn my_message(&selfself) {}`, which is flagged again.
C7_ByValueSelfReproduced ==
    /\ pc = "rechecked"
    /\ params = FnText(TRUE, <<"self">>)
    /\ Concat(params2) = "#[ink(message)] fn my_message(&selfself) {}"
    /\ recvOut2 # None

\* Functions without a by-value receiver are repaired by either quick-fix.
C7_NoReceiverRepaired ==
    (pc = "rechecked" /\ self_param(param_list(Lex(params))[1]) = None)
        => recvOut2 = None

C7_NoReceiverWitness ==
    /\ pc = "rechecked"
    /\ params = FnText(TRUE, <<"this", ":", " ", "&", "Self">>)
    /\ Concat(params2) = "#[ink(message)] fn my_message(&mut self, this: &Self) {}"
    /\ recvOut2 = None

\* ------------------------------------------------------------------------
\* crates/analyzer/src/analysis/actions/item.rs: actions.
\* A file is root-level trivia around at most one item: a module, struct,
\* trait or enum with attributes and a body in braces that is empty or, for
\* a struct, holds one record field.
\* ------------------------------------------------------------------------
MaxItemAttrs == 2

\* TextRange::contains_range
contains_range(outer, inner) == outer[1] <= inner[1] /\ inner[2] <= outer[2]

\* A token of the syntax tree: its text, its kind (WHITESPACE, COMMENT or
\* any other TOKEN), the node it belongs to (ROOT: the source file, ITEM,
\* ATTR: an attribute of the item, FIELD: the record field, FIELD_ATTR: an
\* attribute of the record field) and the part it plays in that node.
Token(text, kind, node, role) ==
    [text |-> text, kind |-> kind, node |-> node, role |-> role, range |-> <<0, 0>>]

\* The attributes of a node, each followed by one whitespace character that
\* belongs to the node.
AttrTokens(attrs, node, owner) ==
    Flat([i \in 1..Len(attrs) |->
            <<Token(Concat(AttrSource(attrs[i])), "TOKEN", node, "attr"),
              Token(" ", "WHITESPACE", owner, "")>>])

Keyword(kind) ==
    CASE kind = "MODULE" -> "mod"
      [] kind = "STRUCT" -> "struct"
      [] kind = "TRAIT" -> "trait"
      [] kind = "ENUM" -> "enum"
      [] kind = "EXTERN_BLOCK" -> "extern"

ItemName(kind) ==
    CASE kind = "MODULE" -> "my_contract"
      [] kind = "STRUCT" -> "MyEvent"
      [] kind = "TRAIT" -> "MyTrait"
      [] kind = "ENUM" -> "MyEnum"
      [] kind = "EXTERN_BLOCK" -> "\"C\""

\* `my_field: u8` with its attributes.
FieldTokens(field) ==
    AttrTokens(field.attrs, "FIELD_ATTR", "FIELD")
    \o <<Token("my_field", "TOKEN", "FIELD", "field_name"),
         Token(":", "TOKEN", "FIELD", ""),
         Token(" ", "WHITESPACE", "FIELD", ""),
         Token("u8", "TOKEN", "FIELD", "field_type")>>

\* What stands between the braces: the gap (no, one or two whitespace
\* characters) around the record field, or the gap alone.
BodyTokens(it) ==
    LET gap == IF it.gap = "" THEN <<>>
               ELSE <<Token(it.gap, "WHITESPACE", "ITEM", "")>> IN
    IF it.field = None THEN gap
    ELSE gap \o FieldTokens(it.field[1]) \o gap

ItemTokens(it) ==
    AttrTokens(it.attrs, "ATTR", "ITEM")
    \o <<Token(Keyword(it.kind), "TOKEN", "ITEM", "keyword"),
         Token(" ", "WHITESPACE", "ITEM", ""),
         Token(ItemName(it.kind), "TOKEN", "ITEM", "name"),
         Token(" ", "WHITESPACE", "ITEM", ""),
         Token("{", "TOKEN", "ITEM", "l_curly")>>
    \o BodyTokens(it)
    \o <<Token("}", "TOKEN", "ITEM", "r_curly")>>

CommentTexts == {"// A comment in focus."}

RootTokens(texts) ==
    [i \in 1..Len(texts) |->
        Token(texts[i], IF texts[i] \in CommentTexts THEN "COMMENT" ELSE "WHITESPACE",
              "ROOT", "")]

FileTokens(f) ==
    RootTokens(f.lead)
    \o (IF f.item = None THEN <<>> ELSE ItemTokens(f.item[1]))
    \o RootTokens(f.trail)

RECURSIVE WithRanges(_, _)
\* The tokens with their text ranges, the first one starting at `pos`.
WithRanges(toks, pos) ==
    IF toks = <<>> THEN <<>>
    ELSE <<[Head(toks) EXCEPT !.range = <<pos, pos + Len(Head(toks).text)>>]>>
         \o WithRanges(Tail(toks), pos + Len(Head(toks).text))

\* The tokens of the parsed file.
SyntaxTokens(f) == WithRanges(FileTokens(f), 0)

FileText(f) == Concat([i \in 1..Len(FileTokens(f)) |-> FileTokens(f)[i].text])

\* file.syntax().text_range()
FileRange(toks) == <<0, IF toks = <<>> THEN 0 ELSE toks[Len(toks)].range[2]>>

\* The token that plays the given part.
TokenWith(toks, role) == SelectSeq(toks, LAMBDA t : t.role = role)[1]

\* The tokens of the nodes with the given names.
TokensOf(toks, nodes) == SelectSeq(toks, LAMBDA t : t.node \in nodes)

\* ------------------------------------------------------------------------
\* The focus resolver and the validity tables (analysis/utils.rs).
\* ------------------------------------------------------------------------
\* utils::focused_element: the token whose range covers or abuts the range,
\* a token that is not trivia before one that is; of two such tokens on
\* either side of a cursor it may be either.  None outside the file and for
\* the empty file.
focused_element(toks, range_) ==
    IF toks = <<>> \/ ~contains_range(FileRange(toks), range_) THEN {None}
    ELSE LET covering == SelectSeq(toks, LAMBDA t : contains_range(t.range, range_))
             non_trivia == SelectSeq(covering, LAMBDA t : t.kind = "TOKEN") IN
         IF non_trivia # <<>>
         THEN {Some(non_trivia[i]) : i \in 1..Len(non_trivia)}
         ELSE {Some(covering[i]) : i \in 1..Len(covering)}

\* No covering attribute, whatever the range.
covering_attribute_none(toks, range_) == None

\* utils::covering_attribute: the attribute whose range contains the range.
covering_attribute(toks, range_) ==
    LET hits == SelectSeq(toks, LAMBDA t : /\ t.node \in {"ATTR", "FIELD_ATTR"}
                                           /\ t.role = "attr"
                                           /\ contains_range(t.range, range_)) IN
    IF hits = <<>> THEN None ELSE Some(hits[1])

\* utils::parent_ast_item: the item the focused element belongs to.
parent_ast_item(f, focused_elem) ==
    IF focused_elem.node = "ROOT" THEN None ELSE f.item

\* ink_analyzer_ir::closest_ancestor_ast_type::<_, ast::RecordField>
closest_ancestor_record_field(it, focused_elem) ==
    IF focused_elem.node \in {"FIELD", "FIELD_ATTR"} THEN it.field ELSE None

\* utils::ast_item_declaration_range: from the first token after the
\* attributes through the opening brace, for the items that have one.
ast_item_declaration_range(it, toks) ==
    IF it.kind \in {"MODULE", "STRUCT", "TRAIT", "ENUM"}
    THEN Some(<<TokenWith(toks, "keyword").range[1], TokenWith(toks, "l_curly").range[2]>>)
    ELSE None

\* utils::ast_item_terminal_token: the closing brace.
ast_item_terminal_token(it, toks) ==
    IF it.kind \in {"MODULE", "STRUCT", "TRAIT", "ENUM"}
    THEN Some(TokenWith(toks, "r_curly"))
    ELSE None

\* ast_item.syntax(): the item as a target, with its text range.
ItemRange(toks) ==
    <<TokensOf(toks, {"ITEM", "ATTR", "FIELD", "FIELD_ATTR"})[1].range[1],
      TokenWith(toks, "r_curly").range[2]>>

ItemTarget(it, toks) ==
    Target(it.kind, it.attrs, ItemRange(toks)[1], TokenWith(toks, "keyword").range[1])

\* record_field.syntax(): the record field as a target, with its text range.
FieldRange(toks) ==
    <<TokensOf(toks, {"FIELD", "FIELD_ATTR"})[1].range[1],
      TokenWith(toks, "field_type").range[2]>>

FieldTarget(field, toks) ==
    Target("RECORD_FIELD", field.attrs, FieldRange(toks)[1],
           TokenWith(toks, "field_name").range[1])

\* utils::ink_attribute_insert_offset: before the first token of the target
\* that is not an attribute.
ink_attribute_insert_offset(target) == target.first_token

\* utils::valid_ink_macros_by_syntax_kind, in the order of the enum.
valid_ink_macros_by_syntax_kind(kind) ==
    CASE kind = "MODULE" -> <<"Contract">>
      [] kind = "TRAIT" -> <<"ChainExtension", "TraitDefinition">>
      [] kind \in {"ENUM", "STRUCT", "UNION"} -> <<"StorageItem">>
      [] kind = "FN" -> <<"Test", "E2ETest">>
      [] OTHER -> <<>>

\* utils::valid_ink_args_by_syntax_kind, in the order of the enum.
valid_ink_args_by_syntax_kind(kind) ==
    CASE kind = "STRUCT" -> <<"Anonymous", "Event", "Storage">>
      [] kind = "RECORD_FIELD" -> <<"Topic">>
      [] kind = "FN" -> <<"Constructor", "Default", "Extension", "HandleStatus",
                          "Message", "Payable", "Selector">>
      [] kind = "IMPL" -> <<"Impl", "Namespace">>
      [] OTHER -> <<>>

\* utils::valid_sibling_ink_args, in the order of the enum.
valid_sibling_ink_args(attr_kind) ==
    CASE attr_kind = Arg("Event") -> <<"Anonymous">>
      [] attr_kind = Arg("Anonymous") -> <<"Event">>
      [] attr_kind \in {Arg("Constructor"), Arg("Message")} ->
            <<"Default", "Payable", "Selector">>
      [] attr_kind = Arg("Extension") -> <<"HandleStatus">>
      [] attr_kind = Arg("Impl") -> <<"Namespace">>
      [] attr_kind = Macro("Contract") -> <<"Env", "KeepAttr">>
      [] attr_kind = Macro("TraitDefinition") -> <<"KeepAttr", "Namespace">>
      [] attr_kind = Macro("StorageItem") -> <<"Derive">>
      [] attr_kind = Macro("E2ETest") ->
            <<"AdditionalContracts", "Environment", "KeepAttr">>
      [] OTHER -> <<>>

\* utils::primary_ink_attribute_candidate: the attribute of lowest rank.
primary_ink_attribute_candidate(inks) ==
    IF inks = <<>> THEN None ELSE Some(Head(StableSort(KeyedAttrs(inks))))

\* utils::remove_duplicate_ink_macro_suggestions
remove_duplicate_ink_macro_suggestions(suggestions, target) ==
    SelectSeq(suggestions,
              LAMBDA k : \A i \in 1..Len(ink_attrs(target)) :
                            ink_attrs(target)[i].kind # Macro(k))

\* utils::remove_invalid_ink_macro_suggestions_for_parent_ink_scope: the
\* targets of these files have no enclosing ink! entity.
remove_invalid_ink_macro_suggestions_for_parent_ink_scope(suggestions, target) ==
    suggestions

\* utils::is_cfg_test_attr: a cfg attribute whose condition includes
\* `test`; utils::is_cfg_e2e_tests_attr: one whose condition also includes
\* the e2e-tests feature.
is_cfg_e2e_tests_attr(a) ==
    a.has_path /\ a.path = <<"cfg">>
    /\ a.metas = <<Meta("all(test, feature = \"e2e-tests\")", NoValue)>>
is_cfg_test_attr(a) ==
    \/ a.has_path /\ a.path = <<"cfg">> /\ a.metas = <<Meta("test", NoValue)>>
    \/ is_cfg_e2e_tests_attr(a)

\* A filter that lets every suggestion through.
remove_invalid_ink_macro_suggestions_for_parent_cfg_scope_none(suggestions, target) ==
    suggestions

\* utils::remove_invalid_ink_macro_suggestions_for_parent_cfg_scope: Test
\* stays only below a cfg test attribute, E2ETest only below a cfg e2e-tests
\* attribute.
remove_invalid_ink_macro_suggestions_for_parent_cfg_scope(suggestions, target) ==
    LET parent_attrs == target.parent_attrs IN
    SelectSeq(suggestions,
              LAMBDA k :
                  CASE k = "Test" ->
                          \E i \in 1..Len(parent_attrs) : is_cfg_test_attr(parent_attrs[i])
                    [] k = "E2ETest" ->
                          \E i \in 1..Len(parent_attrs) : is_cfg_e2e_tests_attr(parent_attrs[i])
                    [] OTHER -> TRUE)

\* utils::remove_duplicate_ink_arg_suggestions
remove_duplicate_ink_arg_suggestions(suggestions, target) ==
    LET present == UNION {{ink_attrs(target)[i].args[j].kind :
                              j \in 1..Len(ink_attrs(target)[i].args)} :
                          i \in 1..Len(ink_attrs(target))} IN
    SelectSeq(suggestions, LAMBDA k : k \notin present)

\* utils::remove_conflicting_ink_arg_suggestions: with a primary attribute,
\* only its valid siblings stay.
remove_conflicting_ink_arg_suggestions(suggestions, target) ==
    LET primary == primary_ink_attribute_candidate(ink_attrs(target)) IN
    IF primary = None THEN suggestions
    ELSE SelectSeq(suggestions,
                   LAMBDA k : k \in Range(valid_sibling_ink_args(primary[1].kind)))

\* utils::remove_invalid_ink_arg_suggestions_for_parent_item: the parent of
\* a target of these files imposes nothing.
remove_invalid_ink_arg_suggestions_for_parent_item(suggestions, target) == suggestions

\* utils::remove_invalid_ink_arg_suggestions_for_parent_ink_scope: the
\* targets of these files have no enclosing ink! entity.
remove_invalid_ink_arg_suggestions_for_parent_ink_scope(suggestions, target) ==
    suggestions

\* ast::Attr::token_tree().l_paren_token().text_range().end() of an ink!
\* attribute with a token tree.
LParenEnd(ink_attr) ==
    ink_attr.text_range[1]
    + Len(Concat(SubSeq(AttrSource(ink_attr.ast), 1,
                        CHOOSE i \in 1..Len(AttrSource(ink_attr.ast)) :
                            /\ AttrSource(ink_attr.ast)[i] = "("
                            /\ \A j \in 1..(i - 1) : AttrSource(ink_attr.ast)[j] # "(")))

\* utils::ink_arg_insert_offset_and_affixes: an entity-type argument goes
\* just after the opening parenthesis, before ", " if arguments follow
\* (the action that adds `event` to `#[ink(anonymous)]` inserts `event, `
\* at the end of `#[ink(`); any other argument goes just before the
\* closing parenthesis, after ", " if the attribute has arguments; an
\* attribute without a token tree gets one around the argument.
ink_arg_insert_offset_and_affixes(ink_attr, arg_kind) ==
    IF ~ink_attr.ast.token_tree
    THEN Some([offset |-> ink_attr.text_range[2] - 1,
               prefix |-> <<"(">>,
               suffix |-> <<")">>])
    ELSE IF ink_arg_kind_sort_order(arg_kind) = 0
    THEN Some([offset |-> LParenEnd(ink_attr),
               prefix |-> <<>>,
               suffix |-> IF ink_attr.args = <<>> THEN <<>> ELSE <<", ">>])
    ELSE Some([offset |-> ink_attr.text_range[2] - 2,
               prefix |-> IF ink_attr.args = <<>> THEN <<>> ELSE <<", ">>,
               suffix |-> <<>>])

\* utils::ink_arg_insert_text: the argument as it is inserted, with a
\* default value where the argument takes one (the snippet is left out).
ink_arg_insert_text(arg_kind) ==
    CASE arg_kind = "AdditionalContracts" -> <<"additional_contracts", " = ", "\"\"">>
      [] arg_kind = "Anonymous" -> <<"anonymous">>
      [] arg_kind = "Constructor" -> <<"constructor">>
      [] arg_kind = "Default" -> <<"default">>
      [] arg_kind = "Derive" -> <<"derive", " = ", "true">>
      [] arg_kind = "Env" -> <<"env", " = ", "crate::">>
      [] arg_kind = "Environment" -> <<"environment", " = ", "crate::">>
      [] arg_kind = "Event" -> <<"event">>
      [] arg_kind = "Extension" -> <<"extension", " = ", "1">>
      [] arg_kind = "HandleStatus" -> <<"handle_status", " = ", "true">>
      [] arg_kind = "Impl" -> <<"impl">>
      [] arg_kind = "KeepAttr" -> <<"keep_attr", " = ", "\"\"">>
      [] arg_kind = "Message" -> <<"message">>
      [] arg_kind = "Namespace" -> <<"namespace", " = ", "\"my_namespace\"">>
      [] arg_kind = "Payable" -> <<"payable">>
      [] arg_kind = "Selector" -> <<"selector", " = ", "1">>
      [] arg_kind = "Storage" -> <<"storage">>
      [] arg_kind = "Topic" -> <<"topic">>

\* utils::ink_arg_insert_text, the snippet: None for an argument without a
\* value, otherwise the text with its value as the placeholder `${1:...}`.
ink_arg_insert_snippet(arg_kind) ==
    IF Len(ink_arg_insert_text(arg_kind)) = 1 THEN None
    ELSE Some(<<ink_arg_insert_text(arg_kind)[1], ink_arg_insert_text(arg_kind)[2],
                "${1:", ink_arg_insert_text(arg_kind)[3], "}">>)

\* TextEdit::insert_with_snippet
TextEditInsertWithSnippet(text, offset, snippet) ==
    [text |-> text, range |-> <<offset, offset>>, snippet |-> snippet]

\* impl fmt::Display for InkMacroKind
InkMacroKindDisplay(macro_kind) ==
    CASE macro_kind = "ChainExtension" -> "chain_extension"
      [] macro_kind = "Contract" -> "contract"
      [] macro_kind = "StorageItem" -> "storage_item"
      [] macro_kind = "Test" -> "test"
      [] macro_kind = "TraitDefinition" -> "trait_definition"
      [] macro_kind = "E2ETest" -> "e2e test"
      [] OTHER -> "unknown"

\* impl fmt::Display for InkArgKind
InkArgKindDisplay(arg_kind) ==
    CASE arg_kind = "AdditionalContracts" -> "additional_contracts"
      [] arg_kind = "Anonymous" -> "anonymous"
      [] arg_kind = "Constructor" -> "constructor"
      [] arg_kind = "Default" -> "default"
      [] arg_kind = "Derive" -> "derive"
      [] arg_kind = "Env" -> "env"
      [] arg_kind = "Environment" -> "environment"
      [] arg_kind = "Event" -> "event"
      [] arg_kind = "Extension" -> "extension"
      [] arg_kind = "HandleStatus" -> "handle_status"
      [] arg_kind = "Impl" -> "impl"
      [] arg_kind = "KeepAttr" -> "keep_attr"
      [] arg_kind = "Message" -> "message"
      [] arg_kind = "Namespace" -> "namespace"
      [] arg_kind = "Payable" -> "payable"
      [] arg_kind = "Selector" -> "selector"
      [] arg_kind = "Storage" -> "storage"
      [] arg_kind = "Topic" -> "topic"
      [] OTHER -> "unknown"

\* ------------------------------------------------------------------------
\* The entity actions (analysis/actions/entity.rs): each inserts the text
\* of one entity, which starts with its attribute, at the given offset or
\* at the place the entity belongs to.
\* ------------------------------------------------------------------------
EntityAction(label, text, offset) ==
    [label |-> label, kind |-> "Refactor", range |-> <<offset, offset>>,
     edits |-> <<TextEditInsert(<<text>>, offset)>>]

\* The start of the body of the item.
BodyStart(toks) == TokenWith(toks, "l_curly").range[2]

EntityOffset(insert_offset_option, default) ==
    IF insert_offset_option = None THEN default ELSE insert_offset_option[1]

\* entity::add_storage, add_event, add_constructor_to_contract and
\* add_message_to_contract
add_storage(toks, insert_offset_option) ==
    EntityAction("add storage", "#[ink(storage)]",
                 EntityOffset(insert_offset_option, BodyStart(toks)))
add_event(toks, insert_offset_option) ==
    EntityAction("add event", "#[ink(event)]",
                 EntityOffset(insert_offset_option, BodyStart(toks)))
add_constructor_to_contract(toks, insert_offset_option) ==
    EntityAction("add constructor", "#[ink(constructor)]",
                 EntityOffset(insert_offset_option, BodyStart(toks)))
add_message_to_contract(toks, insert_offset_option) ==
    EntityAction("add message", "#[ink(message)]",
                 EntityOffset(insert_offset_option, BodyStart(toks)))

\* entity::add_error_code, add_extension and add_message_to_trait_definition
add_error_code(toks, insert_offset_option) ==
    EntityAction("add error code", "type ErrorCode",
                 EntityOffset(insert_offset_option, BodyStart(toks)))
add_extension(toks, insert_offset_option) ==
    EntityAction("add extension function", "#[ink(extension = 1)]",
                 EntityOffset(insert_offset_option, BodyStart(toks)))
add_message_to_trait_definition(toks, insert_offset_option) ==
    EntityAction("add message declaration", "#[ink(message)]",
                 EntityOffset(insert_offset_option, BodyStart(toks)))

\* entity::add_topic: after the last field, if the struct has one.
add_topic(it, toks, insert_offset_option) ==
    EntityAction("add topic field", "#[ink(topic)]",
                 EntityOffset(insert_offset_option,
                              IF it.field = None THEN BodyStart(toks)
                              ELSE FieldRange(toks)[2]))

\* entity::add_contract, add_trait_definition, add_chain_extension and
\* add_storage_item
add_contract(offset) == EntityAction("add contract", "#[ink::contract]", offset)
add_trait_definition(offset) ==
    EntityAction("add trait definition", "#[ink::trait_definition]", offset)
add_chain_extension(offset) ==
    EntityAction("add chain extension", "#[ink::chain_extension]", offset)
add_storage_item(offset) ==
    EntityAction("add storage item", "#[ink::storage_item]", offset)

\* InkFile::contracts: the modules with an ink! contract attribute.
contracts(f) ==
    IF f.item = None \/ f.item[1].kind # "MODULE" THEN <<>>
    ELSE IF \E i \in 1..Len(f.item[1].attrs) :
               /\ InkAttributeCast(f.item[1].attrs[i]) # None
               /\ InkAttributeCast(f.item[1].attrs[i])[1].kind = Macro("Contract")
         THEN <<f.item[1]>>
    ELSE <<>>

\* ------------------------------------------------------------------------
\* crates/analyzer/src/analysis/actions/item.rs: the functions of actions.
\* ------------------------------------------------------------------------
\* Macro actions that look for ink! attribute macros only.
ink_macro_actions_unless_macro(target, range_) ==
    IF \E i \in 1..Len(ink_attrs(target)) :
          ink_attrs(target)[i].kind.tag = "Macro"
             /\ ink_attrs(target)[i].kind.kind # "Unknown"
    THEN <<>>
    ELSE LET ink_macro_suggestions ==
                 remove_invalid_ink_macro_suggestions_for_parent_cfg_scope(
                     remove_invalid_ink_macro_suggestions_for_parent_ink_scope(
                         remove_duplicate_ink_macro_suggestions(
                             valid_ink_macros_by_syntax_kind(target.kind), target),
                         target),
                     target)
             insert_offset == ink_attribute_insert_offset(target) IN
         [i \in 1..Len(ink_macro_suggestions) |->
            [label |-> "Add ink! " \o InkMacroKindDisplay(ink_macro_suggestions[i])
                       \o " attribute macro.",
             kind |-> "Refactor",
             range |-> range_,
             edits |-> <<TextEditInsert(
                           <<"#[", path_as_str(ink_macro_suggestions[i]), "]">>,
                           insert_offset)>>]]

\* fn ink_macro_actions
ink_macro_actions(target, range_) ==
    IF ink_attrs(target) # <<>> THEN <<>>
    ELSE LET ink_macro_suggestions ==
                 remove_invalid_ink_macro_suggestions_for_parent_cfg_scope(
                     remove_invalid_ink_macro_suggestions_for_parent_ink_scope(
                         remove_duplicate_ink_macro_suggestions(
                             valid_ink_macros_by_syntax_kind(target.kind), target),
                         target),
                     target)
             insert_offset == ink_attribute_insert_offset(target) IN
         [i \in 1..Len(ink_macro_suggestions) |->
            [label |-> "Add ink! " \o InkMacroKindDisplay(ink_macro_suggestions[i])
                       \o " attribute macro.",
             kind |-> "Refactor",
             range |-> range_,
             edits |-> <<TextEditInsert(
                           <<"#[", path_as_str(ink_macro_suggestions[i]), "]">>,
                           insert_offset)>>]]

\* An argument action with the range of the declaration in every case.
InkArgActionDeclarationRange(primary_ink_attr_candidate, target, range_, arg_kind) ==
    LET extension == IF primary_ink_attr_candidate = None THEN None
                     ELSE ink_arg_insert_offset_and_affixes(
                              primary_ink_attr_candidate[1], arg_kind)
        is_extending == extension # None
        insert_offset == IF is_extending THEN extension[1].offset
                         ELSE ink_attribute_insert_offset(target)
        insert_prefix == IF is_extending THEN extension[1].prefix ELSE <<>>
        insert_suffix == IF is_extending THEN extension[1].suffix ELSE <<>>
        edit == ink_arg_insert_text(arg_kind)
        snippet == ink_arg_insert_snippet(arg_kind) IN
    [label |-> "Add ink! " \o InkArgKindDisplay(arg_kind) \o " attribute argument.",
     kind |-> "Refactor",
     range |-> range_,
     edits |-> <<TextEditInsertWithSnippet(
                   insert_prefix
                   \o (IF is_extending THEN edit ELSE <<"#[ink(">> \o edit \o <<")]">>)
                   \o insert_suffix,
                   insert_offset,
                   IF snippet = None THEN None
                   ELSE Some(insert_prefix
                             \o (IF is_extending THEN snippet[1]
                                 ELSE <<"#[ink(">> \o snippet[1] \o <<")]">>)
                             \o insert_suffix))>>]

\* fn ink_arg_actions, the action pushed for one suggested argument.
InkArgAction(primary_ink_attr_candidate, target, range_, arg_kind) ==
    LET extension == IF primary_ink_attr_candidate = None THEN None
                     ELSE ink_arg_insert_offset_and_affixes(
                              primary_ink_attr_candidate[1], arg_kind)
        is_extending == extension # None
        insert_offset == IF is_extending THEN extension[1].offset
                         ELSE ink_attribute_insert_offset(target)
        insert_prefix == IF is_extending THEN extension[1].prefix ELSE <<>>
        insert_suffix == IF is_extending THEN extension[1].suffix ELSE <<>>
        edit == ink_arg_insert_text(arg_kind)
        snippet == ink_arg_insert_snippet(arg_kind) IN
    [label |-> "Add ink! " \o InkArgKindDisplay(arg_kind) \o " attribute argument.",
     kind |-> "Refactor",
     range |-> IF is_extending THEN primary_ink_attr_candidate[1].text_range
               ELSE range_,
     edits |-> <<TextEditInsertWithSnippet(
                   insert_prefix
                   \o (IF is_extending THEN edit ELSE <<"#[ink(">> \o edit \o <<")]">>)
                   \o insert_suffix,
                   insert_offset,
                   IF snippet = None THEN None
                   ELSE Some(insert_prefix
                             \o (IF is_extending THEN snippet[1]
                                 ELSE <<"#[ink(">> \o snippet[1] \o <<")]">>)
                             \o insert_suffix))>>]

\* fn ink_arg_actions
ink_arg_actions(target, range_) ==
    LET primary_ink_attr_candidate == primary_ink_attribute_candidate(ink_attrs(target))
        initial == IF primary_ink_attr_candidate # None
                   THEN valid_sibling_ink_args(primary_ink_attr_candidate[1].kind)
                   ELSE valid_ink_args_by_syntax_kind(target.kind)
        filtered ==
            remove_invalid_ink_arg_suggestions_for_parent_item(
                remove_conflicting_ink_arg_suggestions(
                    remove_duplicate_ink_arg_suggestions(initial, target), target),
                target)
        ink_arg_suggestions ==
            IF primary_ink_attr_candidate = None
               \/ primary_ink_attr_candidate[1].kind.tag # "Macro"
            THEN remove_invalid_ink_arg_suggestions_for_parent_ink_scope(filtered, target)
            ELSE filtered IN
    [i \in 1..Len(ink_arg_suggestions) |->
        InkArgAction(primary_ink_attr_candidate, target, range_, ink_arg_suggestions[i])]

\* entity::add_ink_test and entity::add_ink_e2e_test
add_ink_test(toks, insert_offset_option) ==
    EntityAction("add test", "#[ink::test]",
                 EntityOffset(insert_offset_option, BodyStart(toks)))
add_ink_e2e_test(toks, insert_offset_option) ==
    EntityAction("add e2e test", "#[ink_e2e::test]",
                 EntityOffset(insert_offset_option, BodyStart(toks)))

\* Contract::storage and ChainExtension::error_code: the body of a module
\* holds an ink! storage struct if the module says so (its text leaves the
\* struct out); the bodies of the other items hold neither.
HasStorage(it) == "storage" \in DOMAIN it /\ it.storage
HasErrorCode(it) == FALSE

\* Entity actions that offer the tests to a contract as well.
item_ink_entity_actions_tests_in_contract(it, toks, insert_offset_option) ==
    LET inks == ink_attrs(ItemTarget(it, toks))
        primary == primary_ink_attribute_candidate(inks) IN
    CASE it.kind = "MODULE" ->
            IF \E i \in 1..Len(inks) : inks[i].kind = Macro("Contract")
            THEN (IF ~HasStorage(it) THEN <<add_storage(toks, insert_offset_option)>>
                  ELSE <<>>)
                 \o <<add_event(toks, insert_offset_option),
                      add_constructor_to_contract(toks, insert_offset_option),
                      add_message_to_contract(toks, insert_offset_option)>>
                 \o (IF \E i \in 1..Len(it.attrs) : is_cfg_test_attr(it.attrs[i])
                     THEN <<add_ink_test(toks, insert_offset_option)>> ELSE <<>>)
            ELSE (IF \E i \in 1..Len(it.attrs) : is_cfg_test_attr(it.attrs[i])
                  THEN <<add_ink_test(toks, insert_offset_option)>> ELSE <<>>)
                 \o (IF \E i \in 1..Len(it.attrs) : is_cfg_e2e_tests_attr(it.attrs[i])
                     THEN <<add_ink_e2e_test(toks, insert_offset_option)>> ELSE <<>>)
      [] it.kind = "TRAIT" ->
            IF primary = None THEN <<>>
            ELSE IF primary[1].kind = Macro("ChainExtension")
                 THEN (IF ~HasErrorCode(it)
                       THEN <<add_error_code(toks, insert_offset_option)>> ELSE <<>>)
                      \o <<add_extension(toks, insert_offset_option)>>
            ELSE IF primary[1].kind = Macro("TraitDefinition")
                 THEN <<add_message_to_trait_definition(toks, insert_offset_option)>>
            ELSE <<>>
      [] it.kind = "STRUCT" ->
            IF \E i \in 1..Len(inks) : inks[i].kind = Arg("Event")
            THEN <<add_topic(it, toks, insert_offset_option)>>
            ELSE <<>>
      [] OTHER -> <<>>

\* fn item_ink_entity_actions
item_ink_entity_actions(it, toks, insert_offset_option) ==
    LET inks == ink_attrs(ItemTarget(it, toks))
        primary == primary_ink_attribute_candidate(inks) IN
    CASE it.kind = "MODULE" ->
            IF \E i \in 1..Len(inks) : inks[i].kind = Macro("Contract")
            THEN (IF ~HasStorage(it) THEN <<add_storage(toks, insert_offset_option)>>
                  ELSE <<>>)
                 \o <<add_event(toks, insert_offset_option),
                      add_constructor_to_contract(toks, insert_offset_option),
                      add_message_to_contract(toks, insert_offset_option)>>
            ELSE (IF \E i \in 1..Len(it.attrs) : is_cfg_test_attr(it.attrs[i])
                  THEN <<add_ink_test(toks, insert_offset_option)>> ELSE <<>>)
                 \o (IF \E i \in 1..Len(it.attrs) : is_cfg_e2e_tests_attr(it.attrs[i])
                     THEN <<add_ink_e2e_test(toks, insert_offset_option)>> ELSE <<>>)
      [] it.kind = "TRAIT" ->
            IF primary = None THEN <<>>
            ELSE IF primary[1].kind = Macro("ChainExtension")
                 THEN (IF ~HasErrorCode(it)
                       THEN <<add_error_code(toks, insert_offset_option)>> ELSE <<>>)
                      \o <<add_extension(toks, insert_offset_option)>>
            ELSE IF primary[1].kind = Macro("TraitDefinition")
                 THEN <<add_message_to_trait_definition(toks, insert_offset_option)>>
            ELSE <<>>
      [] it.kind = "STRUCT" ->
            IF \E i \in 1..Len(inks) : inks[i].kind = Arg("Event")
            THEN <<add_topic(it, toks, insert_offset_option)>>
            ELSE <<>>
      [] OTHER -> <<>>

\* Root-level actions that offer a contract whatever the file holds.
root_ink_entity_actions_any(f, offset) ==
    <<add_contract(offset), add_trait_definition(offset),
      add_chain_extension(offset), add_storage_item(offset)>>

\* fn root_ink_entity_actions
root_ink_entity_actions(f, offset) ==
    (IF contracts(f) = <<>> THEN <<add_contract(offset)>> ELSE <<>>)
    \o <<add_trait_definition(offset),
         add_chain_extension(offset),
         add_storage_item(offset)>>

\* A declaration focus that falls back to the range of the whole item.
is_focused_on_item_declaration_or_item(it, toks, range_) ==
    \/ contains_range(IF ast_item_declaration_range(it, toks) # None
                      THEN ast_item_declaration_range(it, toks)[1]
                      ELSE ItemRange(toks), range_)
    \/ /\ ast_item_terminal_token(it, toks) # None
       /\ contains_range(ast_item_terminal_token(it, toks)[1].range, range_)

\* fn is_focused_on_item_declaration
is_focused_on_item_declaration(it, toks, range_) ==
    \/ /\ ast_item_declaration_range(it, toks) # None
       /\ contains_range(ast_item_declaration_range(it, toks)[1], range_)
    \/ /\ ast_item_terminal_token(it, toks) # None
       /\ contains_range(ast_item_terminal_token(it, toks)[1].range, range_)

\* A body focus that leaves out both ends of the body.
is_focused_on_item_body_inside(it, toks, range_) ==
    /\ ast_item_declaration_range(it, toks) # None
    /\ ast_item_terminal_token(it, toks) # None
    /\ ast_item_declaration_range(it, toks)[1][2] < range_[1]
    /\ range_[2] < ast_item_terminal_token(it, toks)[1].range[1]

\* fn is_focused_on_item_body
is_focused_on_item_body(it, toks, range_) ==
    /\ ast_item_declaration_range(it, toks) # None
    /\ ast_item_terminal_token(it, toks) # None
    /\ LET declaration_range == ast_item_declaration_range(it, toks)[1]
           terminal_range == ast_item_terminal_token(it, toks)[1].range IN
       /\ declaration_range[2] < terminal_range[1]
       /\ contains_range(<<declaration_range[2], terminal_range[1]>>, range_)

\* Entity actions for every focus on the body, record field or not.
EntityFocusAnyBody(on_declaration, on_body, record_field) ==
    on_declaration \/ on_body

\* fn actions: the condition under which entity actions are computed.
EntityFocus(on_declaration, on_body, record_field) ==
    on_declaration \/ (on_body /\ record_field = None)

\* Results with the entity actions first.
ItemResultsEntityFirst(macro_actions, arg_actions, flatten_actions, entity_actions) ==
    entity_actions \o macro_actions \o arg_actions \o flatten_actions

\* fn actions: the order in which the results of one item are pushed.
ItemResults(macro_actions, arg_actions, flatten_actions, entity_actions) ==
    macro_actions \o arg_actions \o flatten_actions \o entity_actions

\* An insert offset that is always the end of the focused element.
focused_elem_insert_offset_of_element(focused_elem, range_) == focused_elem.range[2]

\* fn actions: the closure focused_elem_insert_offset.
focused_elem_insert_offset(focused_elem, range_) ==
    IF focused_elem.kind = "WHITESPACE" /\ contains_range(focused_elem.range, range_)
    THEN range_[2] ELSE focused_elem.range[2]

\* fn actions: is_focused_on_body.then_some(focused_elem_insert_offset())
entity_insert_offset_option(is_focused_on_body, offset) ==
    IF is_focused_on_body THEN Some(offset) ELSE None

\* fn actions, the arm for a parent AST item.
ItemActions(ast_item, toks, range_, focused_elem, insert_offset) ==
    LET record_field == IF ast_item.kind = "STRUCT"
                        THEN closest_ancestor_record_field(ast_item, focused_elem)
                        ELSE None
        on_declaration == is_focused_on_item_declaration(ast_item, toks, range_)
        target == IF record_field # None THEN FieldTarget(record_field[1], toks)
                  ELSE ItemTarget(ast_item, toks)
        item_declaration_text_range ==
            IF record_field # None THEN FieldRange(toks)
            ELSE IF ast_item_declaration_range(ast_item, toks) # None
                 THEN ast_item_declaration_range(ast_item, toks)[1]
            ELSE ItemRange(toks)
        on_attributes == record_field # None \/ on_declaration
        is_focused_on_body == is_focused_on_item_body(ast_item, toks, range_) IN
    ItemResults(
        IF on_attributes THEN ink_macro_actions(target, item_declaration_text_range)
        ELSE <<>>,
        IF on_attributes THEN ink_arg_actions(target, item_declaration_text_range)
        ELSE <<>>,
        IF on_attributes THEN flatten_attrs(target, item_declaration_text_range)
        ELSE <<>>,
        IF EntityFocus(on_declaration, is_focused_on_body, record_field)
        THEN item_ink_entity_actions(
                 ast_item, toks,
                 entity_insert_offset_option(is_focused_on_body,
                                             insert_offset))
        ELSE <<>>)

\* fn actions, for the focused element the range resolves to.
actions(f, range_, focused) ==
    LET toks == SyntaxTokens(f) IN
    IF focused = None
    THEN IF FileRange(toks)[1] = FileRange(toks)[2]
            /\ contains_range(FileRange(toks), range_)
         THEN root_ink_entity_actions(f, range_[2])
         ELSE <<>>
    ELSE LET focused_elem == focused[1]
             insert_offset == focused_elem_insert_offset(focused_elem, range_) IN
         IF covering_attribute(toks, range_) # None THEN <<>>
         ELSE IF parent_ast_item(f, focused_elem) # None
              THEN ItemActions(parent_ast_item(f, focused_elem)[1], toks, range_,
                               focused_elem, insert_offset)
         ELSE IF focused_elem.node = "ROOT"
              THEN root_ink_entity_actions(f, insert_offset)
         ELSE <<>>

\* The call fn actions makes to the entity builders: none, or
\* item_ink_entity_actions or root_ink_entity_actions with the insert
\* offset it hands over.
NoEntityCall == [builder |-> "none", offset |-> None]
EntityCall(f, range_, focused) ==
    LET toks == SyntaxTokens(f) IN
    IF focused = None
    THEN IF FileRange(toks)[1] = FileRange(toks)[2]
            /\ contains_range(FileRange(toks), range_)
         THEN [builder |-> "root", offset |-> Some(range_[2])]
         ELSE NoEntityCall
    ELSE LET focused_elem == focused[1]
             insert_offset == focused_elem_insert_offset(focused_elem, range_) IN
         IF covering_attribute(toks, range_) # None THEN NoEntityCall
         ELSE IF parent_ast_item(f, focused_elem) # None
              THEN LET ast_item == parent_ast_item(f, focused_elem)[1]
                       record_field ==
                           IF ast_item.kind = "STRUCT"
                           THEN closest_ancestor_record_field(ast_item, focused_elem)
                           ELSE None
                       is_focused_on_body ==
                           is_focused_on_item_body(ast_item, toks, range_) IN
                   IF EntityFocus(is_focused_on_item_declaration(ast_item, toks, range_),
                                  is_focused_on_body, record_field)
                   THEN [builder |-> "item",
                         offset |-> entity_insert_offset_option(is_focused_on_body,
                                                                insert_offset)]
                   ELSE NoEntityCall
         ELSE IF focused_elem.node = "ROOT"
              THEN [builder |-> "root", offset |-> Some(insert_offset)]
         ELSE NoEntityCall

\* ------------------------------------------------------------------------
\* Specification of actions: one call on a file and a range.
\* ------------------------------------------------------------------------
Item(kind, attrs, gap, field) ==
    [kind |-> kind, attrs |-> attrs, gap |-> gap, field |-> field]

File(lead, it, trail) == [lead |-> lead, item |-> it, trail |-> trail]

ModuleAttrPool ==
    {Attr(TRUE, <<"ink", "contract">>, FALSE, <<>>),
     Attr(TRUE, <<"ink", "contract">>, TRUE, <<Meta("env", "crate::Environment")>>),
     Attr(TRUE, <<"ink">>, TRUE, <<Meta("env", "crate::Environment")>>),
     Attr(TRUE, <<"ink">>, TRUE, <<Meta("keep_attr", "\"foo,bar\"")>>)}

StructAttrPool ==
    {Attr(TRUE, <<"ink", "storage_item">>, FALSE, <<>>),
     Attr(TRUE, <<"ink">>, TRUE, <<Meta("event", NoValue)>>),
     Attr(TRUE, <<"ink">>, TRUE, <<Meta("event", NoValue), Meta("anonymous", NoValue)>>),
     Attr(TRUE, <<"ink">>, TRUE, <<Meta("anonymous", NoValue)>>),
     Attr(TRUE, <<"ink">>, TRUE, <<Meta("storage", NoValue)>>)}

TraitAttrPool ==
    {Attr(TRUE, <<"ink", "chain_extension">>, FALSE, <<>>),
     Attr(TRUE, <<"ink", "trait_definition">>, FALSE, <<>>),
     Attr(TRUE, <<"ink">>, TRUE, <<Meta("keep_attr", "\"foo,bar\"")>>)}

EnumAttrPool == {Attr(TRUE, <<"ink", "storage_item">>, FALSE, <<>>)}

FieldAttrLists ==
    {<<>>,
     <<Attr(TRUE, <<"ink">>, TRUE, <<Meta("topic", NoValue)>>)>>,
     <<Attr(TRUE, <<"abc">>, FALSE, <<>>)>>}

\* Attribute lists that start with an attribute that is not an ink! one,
\* for a module and for an item without a declaration range,
\* `extern "C" { }`.
AbcAttrLists ==
    {<<Attr(TRUE, <<"abc">>, FALSE, <<>>)>>,
     <<Attr(TRUE, <<"abc">>, FALSE, <<>>), Attr(TRUE, <<"ink", "contract">>, FALSE, <<>>)>>}
ExternAttrLists == {<<>>, <<Attr(TRUE, <<"abc">>, FALSE, <<>>)>>}

\* Attribute lists of one ink! attribute of an unknown kind: `#[ink::xyz]`,
\* `#[ink(xyz)]` and `#[ink]`.
UnknownInkAttrLists ==
    {<<Attr(TRUE, <<"ink", "xyz">>, FALSE, <<>>)>>,
     <<Attr(TRUE, <<"ink">>, TRUE, <<Meta("xyz", NoValue)>>)>>,
     <<Attr(TRUE, <<"ink">>, FALSE, <<>>)>>}

\* The attribute lists of an item: none, lists whose primary attribute is
\* a macro or an entity-type argument, and `#[ink(anonymous)]` alone.
ItemAttrLists(pool) ==
    {s \in SeqsUpTo(pool, MaxItemAttrs) :
        \/ s = <<>>
        \/ s = <<Attr(TRUE, <<"ink">>, TRUE, <<Meta("anonymous", NoValue)>>)>>
        \/ LET primary == Head(SortedInkAttrs(Target("ITEM", s, 0, 0))) IN
           primary.kind.tag = "Macro" \/ ink_arg_kind_sort_order(primary.kind.kind) = 0}

GapPool == {"", " ", "\n\n"}

Items ==
    {Item("MODULE", a, g, None) : a \in ItemAttrLists(ModuleAttrPool), g \in GapPool}
    \cup {Item("STRUCT", a, g, None) : a \in ItemAttrLists(StructAttrPool), g \in GapPool}
    \cup {Item("STRUCT", a, g, Some([attrs |-> fa])) :
            a \in ItemAttrLists(StructAttrPool), g \in GapPool, fa \in FieldAttrLists}
    \cup {Item("TRAIT", a, g, None) : a \in ItemAttrLists(TraitAttrPool), g \in GapPool}
    \cup {Item("ENUM", a, g, None) : a \in ItemAttrLists(EnumAttrPool), g \in GapPool}
    \cup {Item("MODULE", a, g, None) : a \in AbcAttrLists, g \in GapPool}
    \cup {Item("MODULE", a, g, None) : a \in UnknownInkAttrLists, g \in GapPool}
    \cup {Item("EXTERN_BLOCK", a, g, None) : a \in ExternAttrLists, g \in GapPool}

RootTexts ==
    {<<>>, <<" ">>, <<"\n\n">>, <<"// A comment in focus.">>,
     <<"// A comment in focus.", "\n">>}

ActionFiles ==
    {File(texts, None, <<>>) : texts \in RootTexts}
    \cup {File(<<>>, Some(it), <<>>) : it \in Items}
    \cup {File(<<"\n">>, Some(it), <<"\n">>) : it \in Items}

\* The ranges a call is made with: a cursor at either end of a token or
\* inside it, the range of a token, and a cursor outside the file.
CursorRanges(f) ==
    LET toks == SyntaxTokens(f)
        offsets == {0}
                   \cup {toks[i].range[1] : i \in 1..Len(toks)}
                   \cup {toks[i].range[2] : i \in 1..Len(toks)}
                   \cup {toks[i].range[1] + 1 : i \in 1..Len(toks)} IN
    {<<o, o>> : o \in offsets}
    \cup {toks[i].range : i \in 1..Len(toks)}
    \cup {<<FileRange(toks)[2] + 1, FileRange(toks)[2] + 1>>}

ActionsInit ==
    /\ pc = "start"
    /\ project_name = None /\ project = None /\ kind_in = None /\ kind_out = None
    /\ item_focus = None /\ entity_call = None
    /\ file \in ActionFiles
    /\ range \in CursorRanges(file)
    /\ focus = None /\ results = None
    /\ attr = None /\ castOut = None
    /\ item = None /\ flatOut = None /\ item2 = None /\ flatOut2 = None
    /\ params = None /\ recvOut = None /\ params2 = None /\ recvOut2 = None
    /\ entity = None /\ diags = None /\ kinds = None /\ ordering = None
    /\ context = None /\ suggested = None

\* pub fn actions
ComputeActions ==
    /\ pc = "start"
    /\ pc' = "acted"
    /\ \E focused \in focused_element(SyntaxTokens(file), range) :
          /\ focus' = focused
          /\ results' = actions(file, range, focused)
          /\ entity_call' = EntityCall(file, range, focused)
    /\ UNCHANGED <<attr, castOut, item, flatOut, item2, flatOut2, params, recvOut,
                   params2, recvOut2, file, range,
                   entity, diags, kinds, ordering, context, suggested, item_focus,
                   project_name, project, kind_in, kind_out>>

\* is_focused_on_item_declaration and is_focused_on_item_body, on the item
\* of the file and the range.
FocusOnItem ==
    /\ pc = "start"
    /\ file.item # None
    /\ pc' = "focused"
    /\ item_focus' =
          [declaration |->
               is_focused_on_item_declaration(file.item[1], SyntaxTokens(file), range),
           body |-> is_focused_on_item_body(file.item[1], SyntaxTokens(file), range)]
    /\ UNCHANGED <<attr, castOut, item, flatOut, item2, flatOut2, params, recvOut,
                   params2, recvOut2, file, range, focus, results,
                   entity, diags, kinds, ordering, context, suggested, entity_call,
                   project_name, project, kind_in, kind_out>>

ActionsNext == ComputeActions \/ FocusOnItem

SpecActions == ActionsInit /\ [][ActionsNext]_vars

\* ------------------------------------------------------------------------
\* Properties of actions.
\* ------------------------------------------------------------------------
Labels(acts) == [i \in 1..Len(acts) |-> acts[i].label]

\* The offsets at which the actions insert.
InsertOffsets(acts) ==
    {acts[i].edits[n].range[1] : i \in 1..Len(acts), n \in {1}}

AllInsertOnce(acts) ==
    \A i \in 1..Len(acts) :
        /\ Len(acts[i].edits) = 1
        /\ acts[i].edits[1].range[1] = acts[i].edits[1].range[2]

\* The file holds a module with an `ink::contract` attribute.
HoldsContract(f) ==
    /\ f.item # None
    /\ f.item[1].kind = "MODULE"
    /\ \E i \in 1..Len(f.item[1].attrs) : f.item[1].attrs[i].path = <<"ink", "contract">>

\* The call resolved the range to the root of the file: a root-level token,
\* or the empty file with the range inside it.
FocusAtFileRoot ==
    /\ pc = "acted"
    /\ \/ focus = None /\ FileText(file) = "" /\ range = <<0, 0>>
       \/ focus # None /\ focus[1].node = "ROOT"

\* C8: with the focus at file root (or an empty file and the range inside
\* it) the result is "add contract" iff the file holds no contract, followed
\* by "add trait definition", "add chain extension" and "add storage item",
\* all inserting at one offset; for the empty file and the cursor at offset
\* 0 these are four actions, each inserting at offset 0.
C8_RootActions ==
    FocusAtFileRoot =>
        /\ Labels(results) =
              (IF HoldsContract(file) THEN <<>> ELSE <<"add contract">>)
              \o <<"add trait definition", "add chain extension", "add storage item">>
        /\ AllInsertOnce(results)
        /\ Cardinality(InsertOffsets(results)) = 1
        /\ (FileText(file) = "" /\ range = <<0, 0>>) =>
              /\ Len(results) = 4
              /\ InsertOffsets(results) = {0}

C8_Witness ==
    /\ pc = "acted"
    /\ FileText(file) = ""
    /\ range = <<0, 0>>
    /\ Labels(results) = <<"add contract", "add trait definition",
                           "add chain extension", "add storage item">>
    /\ InsertOffsets(results) = {0}

\* The call resolved the range to a token of the record field of a struct,
\* outside the attributes of the field.
FocusOnRecordField ==
    /\ pc = "acted"
    /\ focus # None
    /\ focus[1].node = "FIELD"

\* The range lies in the declaration of the item (from its keyword through
\* its opening brace) or on its closing brace.
RangeOnDeclaration ==
    LET toks == SyntaxTokens(file) IN
    \/ contains_range(<<TokenWith(toks, "keyword").range[1],
                        TokenWith(toks, "l_curly").range[2]>>, range)
    \/ contains_range(TokenWith(toks, "r_curly").range, range)

\* The attribute actions of the record field: `#[ink(topic)]` before the
\* name of the field if it has no ink! attribute, nothing if it has
\* `#[ink(topic)]`.
FieldAttributeActions ==
    LET toks == SyntaxTokens(file)
        name == TokenWith(toks, "field_name")
        attrs == file.item[1].field[1].attrs IN
    IF \E i \in 1..Len(attrs) : attrs[i].path[1] = "ink" THEN <<>>
    ELSE <<[label |-> "Add ink! topic attribute argument.",
            kind |-> "Refactor",
            range |-> <<FieldRange(toks)[1], TokenWith(toks, "field_type").range[2]>>,
            edits |-> <<[text |-> <<"#[ink(", "topic", ")]">>,
                         range |-> <<name.range[1], name.range[1]>>,
                         snippet |-> None]>>]>>

EntityLabels ==
    {"add storage", "add event", "add constructor", "add message", "add test",
     "add e2e test", "add error code", "add extension function",
     "add message declaration", "add topic field", "add contract",
     "add trait definition", "add chain extension", "add storage item"}

EntityActionsOf(acts) == SelectSeq(acts, LAMBDA a : a.label \in EntityLabels)

C9Example == "#[ink(event)] struct MyEvent { my_field: u8 }"

\* The cursor on `my_field` in C9Example: at its start, inside it, at its
\* end, or the whole name selected.
OnMyField == range \in {<<31, 31>>, <<32, 32>>, <<39, 39>>, <<31, 39>>}

ExactlyTopicBeforeField ==
    /\ Len(results) = 1
    /\ Len(results[1].edits) = 1
    /\ Concat(results[1].edits[1].text) = "#[ink(topic)]"
    /\ results[1].edits[1].range = <<31, 31>>

\* C9 as stated: with the focus on a record field of a struct the attribute
\* actions are those of the field and no struct-level entity action is
\* returned; for C9Example with the cursor on `my_field` the result is one
\* action inserting `#[ink(topic)]` before the field.
C9_FieldFocusSuppressesEntityActions ==
    FocusOnRecordField =>
        /\ results = FieldAttributeActions
        /\ EntityActionsOf(results) = <<>>
        /\ (FileText(file) = C9Example /\ OnMyField) => ExactlyTopicBeforeField

\* C9 amended: with the focus on a record field of a struct the attribute
\* actions are those of the field, and no struct-level entity action is
\* returned unless the range also lies in the declaration of the struct or
\* on its closing brace (a field that abuts a brace); for C9Example with the
\* cursor on `my_field` the result is one action inserting `#[ink(topic)]`
\* before the field.
C9_FieldFocusOffDeclaration ==
    FocusOnRecordField =>
        /\ SubSeq(results, 1, Len(results) - Len(EntityActionsOf(results)))
              = FieldAttributeActions
        /\ ~RangeOnDeclaration => EntityActionsOf(results) = <<>>
        /\ (FileText(file) = C9Example /\ OnMyField) => ExactlyTopicBeforeField

C9_Witness ==
    /\ FocusOnRecordField
    /\ FileText(file) = C9Example
    /\ range = <<31, 31>>
    /\ ExactlyTopicBeforeField

MacroLabels ==
    {"Add ink! " \o InkMacroKindDisplay(k) \o " attribute macro." : k \in InkMacroKind}

ArgLabels ==
    {"Add ink! " \o InkArgKindDisplay(k) \o " attribute argument." : k \in InkArgKind}

\* The family of an action: 1 attribute-macro add, 2 attribute-argument
\* add, 3 Flatten, 4 entity add.
Family(a) ==
    IF a.label \in MacroLabels THEN 1
    ELSE IF a.label \in ArgLabels THEN 2
    ELSE IF a.label = "Flatten ink! attribute arguments." THEN 3
    ELSE IF a.label \in EntityLabels THEN 4
    ELSE 0

C10Example ==
    "#[ink::contract(env=crate::Environment)] #[ink(keep_attr=\"foo,bar\")] mod my_contract {}"

\* C10: the results for one focused item are attribute-macro adds, then
\* attribute-argument adds, then the Flatten action, then entity adds; for
\* C10Example with the cursor before `mod` they are one Flatten action that
\* replaces the first attribute with the merged one and deletes the second,
\* then "add storage", "add event", "add constructor" and "add message",
\* and no argument add.
C10_ActionOrder ==
    (pc = "acted" /\ focus # None /\ focus[1].node # "ROOT") =>
        /\ \A i \in 1..Len(results) : Family(results[i]) \in 1..4
        /\ \A i, j \in 1..Len(results) :
              i < j => Family(results[i]) <= Family(results[j])
        /\ Cardinality({i \in 1..Len(results) : Family(results[i]) = 3}) <= 1
        /\ (FileText(file) = C10Example /\ range = <<69, 69>>) =>
              /\ Labels(results) =
                    <<"Flatten ink! attribute arguments.", "add storage", "add event",
                      "add constructor", "add message">>
              /\ Len(results[1].edits) = 2
              /\ results[1].edits[1].range = <<0, 40>>
              /\ Concat(results[1].edits[1].text)
                    = "#[ink::contract(env = crate::Environment, keep_attr = \"foo,bar\")]"
              /\ results[1].edits[2] = [text |-> <<>>, range |-> <<41, 68>>]

C10_Witness ==
    /\ pc = "acted"
    /\ FileText(file) = C10Example
    /\ range = <<69, 69>>
    /\ focus # None /\ focus[1].text = "mod"
    /\ Len(results) = 5
    /\ Family(results[1]) = 3
    /\ \A i \in 2..5 : Family(results[i]) = 4

\* ------------------------------------------------------------------------
\* crates/analyzer/src/analysis/diagnostics/message.rs and ink_test.rs: the
\* diagnostics of an ink! message and of an ink! test.  The entity is a
\* function with its attribute, its qualifiers and, in its body, at most one
\* struct with a record field.
\* ------------------------------------------------------------------------
MaxNestedAttrs == 2

Word(text, node, role) == Token(text, "TOKEN", node, role)

Space(node) == Token(" ", "WHITESPACE", node, "")

\* A qualifier of the function, if written, with the whitespace after it.
Qualifier(text, role) ==
    IF text = "" THEN <<>> ELSE <<Word(text, "ITEM", role), Space("ITEM")>>

Entity(scope, vis, const, async, unsafe, abi, generics, receiver, variadic, ret, nested) ==
    [scope |-> scope, vis |-> vis, const |-> const, async |-> async,
     unsafe |-> unsafe, abi |-> abi, generics |-> generics, receiver |-> receiver,
     variadic |-> variadic, ret |-> ret, nested |-> nested]

\* The struct in the body of the function, with its attributes and those of
\* its record field.
NestedTokens(nested) ==
    IF nested = None THEN <<>>
    ELSE <<Space("ITEM")>>
         \o AttrTokens(nested[1].attrs, "NESTED_ATTR", "NESTED")
         \o <<Word("struct", "NESTED", "keyword"), Space("NESTED"),
              Word("MyEvent", "NESTED", "name"), Space("NESTED"),
              Word("{", "NESTED", "l_curly"), Space("NESTED")>>
         \o AttrTokens(nested[1].field_attrs, "NESTED_FIELD_ATTR", "NESTED_FIELD")
         \o <<Word("value", "NESTED_FIELD", "field_name"),
              Word(":", "NESTED_FIELD", ""), Space("NESTED_FIELD"),
              Word("bool", "NESTED_FIELD", "field_type"),
              Word(",", "NESTED", ""), Space("NESTED"),
              Word("}", "NESTED", "r_curly"), Space("ITEM")>>

EntityAttr(scope) == IF scope = "message" THEN "#[ink(message)]" ELSE "#[ink::test]"

EntityName(scope) == IF scope = "message" THEN "my_message" ELSE "it_works"

EntityTokens(e) ==
    <<Word(EntityAttr(e.scope), "ATTR", "attr"), Space("ITEM")>>
    \o Qualifier(e.vis, "visibility")
    \o Qualifier(e.const, "const")
    \o Qualifier(e.async, "async")
    \o Qualifier(e.unsafe, "unsafe")
    \o Qualifier(e.abi, "abi")
    \o <<Word("fn", "ITEM", "keyword"), Space("ITEM"),
         Word(EntityName(e.scope), "ITEM", "name")>>
    \o (IF e.generics = "" THEN <<>>
        ELSE <<Word(e.generics, "ITEM", "generic_param_list")>>)
    \o <<Word("(", "ITEM", "l_paren")>>
    \o [i \in 1..Len(e.receiver) |->
          Token(e.receiver[i], IF e.receiver[i] = " " THEN "WHITESPACE" ELSE "TOKEN",
                "ITEM", "")]
    \o (IF e.variadic
        THEN <<Word(",", "ITEM", "comma"), Space("ITEM"), Word("...", "ITEM", "dotdotdot")>>
        ELSE <<>>)
    \o <<Word(")", "ITEM", "r_paren"), Space("ITEM")>>
    \o (IF e.ret = "" THEN <<>>
        ELSE <<Word("->", "ITEM", "thin_arrow"), Space("ITEM"),
               Word(e.ret, "ITEM", "ret_type"), Space("ITEM")>>)
    \o <<Word("{", "ITEM", "l_curly")>>
    \o NestedTokens(e.nested)
    \o <<Word("}", "ITEM", "r_curly")>>

\* The tokens of the parsed entity and its text as pieces.
EntitySyntax(e) == WithRanges(EntityTokens(e), 0)

EntityPieces(e) == [i \in 1..Len(EntityTokens(e)) |-> EntityTokens(e)[i].text]

\* The tokens that play the given part.
TokensWith(toks, role) == SelectSeq(toks, LAMBDA t : t.role = role)

Diagnostic(message, range_, quickfixes) ==
    [message |-> message, range |-> range_, severity |-> "Error",
     quickfixes |-> quickfixes]

QuickFix(label, range_, edit) ==
    [label |-> label, kind |-> "QuickFix", range |-> range_, edits |-> <<edit>>]

\* analysis_utils::node_and_trivia_range: the range of a token with the
\* whitespace that follows it.
node_and_trivia_range(toks, range_) ==
    LET next == SelectSeq(toks, LAMBDA t : t.range[1] = range_[2] /\ t.kind = "WHITESPACE") IN
    IF next = <<>> THEN range_ ELSE <<range_[1], next[1].range[2]>>

\* utils::run_generic_diagnostics: the attributes of these entities are
\* known, single and carry no argument value.
run_generic_diagnostics(e) == <<>>

\* utils::ensure_fn: these entities are functions.
ensure_fn(e, ink_scope_name) == None

\* utils::ensure_callable_invariants, a qualifier that is not checked.
KeywordInvariantUnchecked(toks, role, ink_scope_name) == <<>>

\* utils::ensure_callable_invariants, the check of one of const, async,
\* unsafe and the explicit ABI.
KeywordInvariant(toks, role, ink_scope_name) ==
    LET hits == TokensWith(toks, role) IN
    IF hits = <<>> THEN <<>>
    ELSE LET range_ == node_and_trivia_range(toks, hits[1].range) IN
         <<Diagnostic("ink! " \o ink_scope_name \o " must not be " \o role \o ".",
                      hits[1].range,
                      Some(<<QuickFix("Remove " \o role \o ".", range_,
                                      TextEditDelete(range_))>>))>>

\* utils::ensure_callable_invariants, the check of the visibility.
VisibilityInvariant(toks, ink_scope_name) ==
    LET hits == TokensWith(toks, "visibility") IN
    IF hits = <<>> \/ hits[1].text = "pub" THEN <<>>
    ELSE LET range_ == hits[1].range
             remove_range == node_and_trivia_range(toks, range_) IN
         <<Diagnostic("ink! " \o ink_scope_name
                         \o " must have pub or inherited visibility.",
                      range_,
                      Some(<<QuickFix("Change to pub visibility.", range_,
                                      TextEditReplace(<<"pub">>, range_)),
                             QuickFix("Remove visibility.", remove_range,
                                      TextEditDelete(remove_range))>>))>>

\* utils::ensure_callable_invariants, the check of the generic parameters.
GenericsInvariant(toks, ink_scope_name) ==
    LET hits == TokensWith(toks, "generic_param_list") IN
    IF hits = <<>> THEN <<>>
    ELSE <<Diagnostic("Generic types on an ink! " \o ink_scope_name
                         \o " are not supported.",
                      hits[1].range,
                      Some(<<QuickFix("Remove generic types.", hits[1].range,
                                      TextEditDelete(hits[1].range))>>))>>

\* utils::ensure_callable_invariants, the check of the variadic parameter.
VariadicInvariant(toks, ink_scope_name) ==
    LET dots == TokensWith(toks, "dotdotdot") IN
    IF dots = <<>> THEN <<>>
    ELSE LET range_ == <<TokenWith(toks, "comma").range[1], dots[1].range[2]>> IN
         <<Diagnostic("ink! " \o ink_scope_name \o " must not be variadic.",
                      dots[1].range,
                      Some(<<QuickFix("Make function un-variadic.", range_,
                                      TextEditDelete(range_))>>))>>

\* utils::ensure_callable_invariants
ensure_callable_invariants(toks, ink_scope_name) ==
    VisibilityInvariant(toks, ink_scope_name)
    \o GenericsInvariant(toks, ink_scope_name)
    \o KeywordInvariant(toks, "const", ink_scope_name)
    \o KeywordInvariant(toks, "async", ink_scope_name)
    \o KeywordInvariant(toks, "unsafe", ink_scope_name)
    \o KeywordInvariant(toks, "abi", ink_scope_name)
    \o VariadicInvariant(toks, ink_scope_name)

\* A check that flags every return type.
ensure_not_return_self_any_type(toks) ==
    LET return_type == TokensWith(toks, "ret_type") IN
    IF return_type = <<>> THEN None
    ELSE Some(Diagnostic("ink! message must not return Self.",
                         return_type[1].range,
                         Some(<<QuickFix("Remove Self return type.", return_type[1].range,
                                         TextEditDelete(return_type[1].range))>>)))

\* fn ensure_not_return_self
ensure_not_return_self(toks) ==
    LET return_type == TokensWith(toks, "ret_type") IN
    IF return_type = <<>> THEN None
    ELSE LET range_ == node_and_trivia_range(
                           toks, <<TokenWith(toks, "thin_arrow").range[1],
                                   return_type[1].range[2]>>) IN
         IF return_type[1].text = "Self"
         THEN Some(Diagnostic("ink! message must not return Self.",
                              return_type[1].range,
                              Some(<<QuickFix("Remove Self return type.", range_,
                                              TextEditDelete(range_))>>)))
         ELSE None

\* item.tree().ink_attrs_descendants(): the ink! attributes below the
\* entity in source order, each with its range and, if its parent is an
\* item, the range of that item.
ink_attrs_descendants(toks, nested) ==
    IF nested = None THEN <<>>
    ELSE LET item_attrs == TokensOf(toks, {"NESTED_ATTR"})
             field_attrs == TokensOf(toks, {"NESTED_FIELD_ATTR"})
             item_toks == TokensOf(toks, {"NESTED_ATTR", "NESTED"})
             item_range == <<item_toks[1].range[1], item_toks[Len(item_toks)].range[2]>>
             found == [i \in 1..Len(item_attrs) |->
                          [ast |-> nested[1].attrs[i], range |-> item_attrs[i].range,
                           parent_ast_item |-> Some(item_range)]]
                      \o [i \in 1..Len(field_attrs) |->
                          [ast |-> nested[1].field_attrs[i], range |-> field_attrs[i].range,
                           parent_ast_item |-> None]] IN
         SelectSeq(found, LAMBDA d : InkAttributeCast(d.ast) # None)

\* Quick-fixes that never offer to remove the item.
DescendantQuickfixesAttributeOnly(d) ==
    <<QuickFix("Remove " \o Concat(AttrSource(d.ast)) \o " attribute.", d.range,
               TextEditDelete(d.range))>>

\* utils::ensure_no_ink_descendants, the quick-fixes of one diagnostic:
\* remove the attribute and, for an attribute of an item, remove the item.
DescendantQuickfixes(d) ==
    <<QuickFix("Remove " \o Concat(AttrSource(d.ast)) \o " attribute.", d.range,
               TextEditDelete(d.range))>>
    \o (IF d.parent_ast_item = None THEN <<>>
        ELSE <<QuickFix("Remove item.", d.parent_ast_item[1],
                        TextEditDelete(d.parent_ast_item[1]))>>)

\* utils::ensure_no_ink_descendants
ensure_no_ink_descendants(toks, nested, ink_scope_name) ==
    LET inks == ink_attrs_descendants(toks, nested) IN
    [i \in 1..Len(inks) |->
        Diagnostic(Concat(AttrSource(inks[i].ast)) \o " cannot be used inside an ink! "
                      \o ink_scope_name \o ".",
                   inks[i].range,
                   Some(DescendantQuickfixes(inks[i])))]

\* pub fn diagnostics of message.rs
message_diagnostics(message) ==
    LET toks == EntitySyntax(message) IN
    run_generic_diagnostics(message)
    \o ensure_fn(message, "message")
    \o ensure_callable_invariants(toks, "message")
    \o ensure_receiver_is_self_ref(EntityPieces(message))
    \o ensure_not_return_self(toks)
    \o ensure_no_ink_descendants(toks, message.nested, "message")

\* pub fn diagnostics of ink_test.rs
ink_test_diagnostics(ink_test) ==
    LET toks == EntitySyntax(ink_test) IN
    run_generic_diagnostics(ink_test)
    \o ensure_fn(ink_test, "test")
    \o ensure_no_ink_descendants(toks, ink_test.nested, "test")

\* The entities the diagnostics are applied to: messages with every
\* combination of qualifiers, and messages and tests with a struct in the
\* body.
NestedAttrPool ==
    {Attr(TRUE, <<"ink">>, TRUE, <<Meta("event", NoValue)>>),
     Attr(TRUE, <<"ink">>, TRUE, <<Meta("anonymous", NoValue)>>),
     Attr(TRUE, <<"derive">>, TRUE, <<Meta("Debug", NoValue)>>)}

NestedFieldAttrPool ==
    {Attr(TRUE, <<"ink">>, TRUE, <<Meta("topic", NoValue)>>),
     Attr(TRUE, <<"foo">>, FALSE, <<>>)}

Receivers == {<<"&", "self">>, <<"&", "mut", " ", "self">>, <<"self">>}

SignatureEntities ==
    {Entity("message", vis, const, async, unsafe, abi, generics, receiver, variadic, ret, None) :
        vis \in {"", "pub", "pub(crate)", "pub(in my::path)"},
        const \in {"", "const"}, async \in {"", "async"}, unsafe \in {"", "unsafe"},
        abi \in {"", "extern \"C\""}, generics \in {"", "<T>"},
        receiver \in Receivers, variadic \in BOOLEAN, ret \in {"", "Self"}}

NestedEntities ==
    {Entity(scope, "pub", "", "", "", "", "",
            IF scope = "message" THEN <<"&", "mut", " ", "self">> ELSE <<>>,
            FALSE, "",
            Some([attrs |-> attrs, field_attrs |-> field_attrs])) :
        scope \in {"message", "test"},
        attrs \in SeqsUpTo(NestedAttrPool, MaxNestedAttrs),
        field_attrs \in SeqsUpTo(NestedFieldAttrPool, 1)}

\* Messages with a return type that is not `Self`.
ReturnEntities ==
    {Entity("message", vis, "", "", "", "", "", receiver, FALSE, ret, None) :
        vis \in {"", "pub"}, receiver \in Receivers,
        ret \in {"bool", "(Self)", "Result<Self>"}}

DiagnosticEntities == SignatureEntities \cup NestedEntities \cup ReturnEntities

DiagnosticsInit ==
    /\ pc = "start"
    /\ project_name = None /\ project = None /\ kind_in = None /\ kind_out = None
    /\ item_focus = None /\ entity_call = None
    /\ entity \in DiagnosticEntities
    /\ diags = None
    /\ attr = None /\ castOut = None
    /\ item = None /\ flatOut = None /\ item2 = None /\ flatOut2 = None
    /\ params = None /\ recvOut = None /\ params2 = None /\ recvOut2 = None
    /\ file = None /\ range = None /\ focus = None /\ results = None
    /\ kinds = None /\ ordering = None /\ context = None /\ suggested = None

MessageDiagnostics ==
    /\ pc = "start"
    /\ entity.scope = "message"
    /\ pc' = "diagnosed"
    /\ diags' = message_diagnostics(entity)
    /\ UNCHANGED <<attr, castOut, item, flatOut, item2, flatOut2, params, recvOut,
                   params2, recvOut2, file, range, focus, results, entity,
                   kinds, ordering, context, suggested,
                   item_focus, entity_call,
                   project_name, project, kind_in, kind_out>>

InkTestDiagnostics ==
    /\ pc = "start"
    /\ entity.scope = "test"
    /\ pc' = "diagnosed"
    /\ diags' = ink_test_diagnostics(entity)
    /\ UNCHANGED <<attr, castOut, item, flatOut, item2, flatOut2, params, recvOut,
                   params2, recvOut2, file, range, focus, results, entity,
                   kinds, ordering, context, suggested,
                   item_focus, entity_call,
                   project_name, project, kind_in, kind_out>>

DiagnosticsNext == MessageDiagnostics \/ InkTestDiagnostics

SpecDiagnostics == DiagnosticsInit /\ [][DiagnosticsNext]_vars

\* ------------------------------------------------------------------------
\* Properties of the diagnostics.
\* ------------------------------------------------------------------------
\* The callable invariants the function of the entity violates.
CallableViolations ==
    (IF entity.vis \notin {"", "pub"} THEN {"visibility"} ELSE {})
    \cup (IF entity.generics # "" THEN {"generics"} ELSE {})
    \cup (IF entity.const # "" THEN {"const"} ELSE {})
    \cup (IF entity.async # "" THEN {"async"} ELSE {})
    \cup (IF entity.unsafe # "" THEN {"unsafe"} ELSE {})
    \cup (IF entity.abi # "" THEN {"abi"} ELSE {})
    \cup (IF entity.variadic THEN {"variadic"} ELSE {})

\* A diagnosed message that is valid but for its callable invariants: a
\* reference receiver, no Self return type, nothing in its body.
DiagnosedCallable ==
    /\ pc = "diagnosed"
    /\ entity.scope = "message"
    /\ entity.receiver[1] = "&"
    /\ entity.ret = ""
    /\ entity.nested = None

C11Example == "#[ink(message)] fn my_message<T>(&self) {}"

\* C11: a message function that violates exactly one callable invariant
\* (generic parameters, const, async, unsafe, explicit ABI, variadic or a
\* path-qualified visibility) gets exactly one diagnostic, of severity
\* Error; for C11Example its only quick-fix deletes exactly the range of
\* the generic parameter list.
C11_OneCallableViolation ==
    (DiagnosedCallable /\ Cardinality(CallableViolations) = 1) =>
        /\ Len(diags) = 1
        /\ diags[1].severity = "Error"
        /\ Concat(EntityPieces(entity)) = C11Example =>
              /\ diags[1].quickfixes # None
              /\ Len(diags[1].quickfixes[1]) = 1
              /\ diags[1].quickfixes[1][1].edits = <<[text |-> <<>>, range |-> <<29, 32>>]>>

C11_Witness ==
    /\ DiagnosedCallable
    /\ Concat(EntityPieces(entity)) = C11Example
    /\ Len(diags) = 1
    /\ diags[1].quickfixes[1][1].edits[1].range = <<29, 32>>

\* A diagnosed message or test with a struct in its body.
DiagnosedNested == pc = "diagnosed" /\ entity.nested # None

IsInkPath(a) == a.has_path /\ a.path # <<>> /\ a.path[1] \in {"ink", "ink_e2e"}

\* The ink! attributes of the struct in the body and of its record field.
NestedItemInkAttrs == SelectSeq(entity.nested[1].attrs, IsInkPath)
NestedFieldInkAttrs == SelectSeq(entity.nested[1].field_attrs, IsInkPath)
NestedInkAttrs == NestedItemInkAttrs \o NestedFieldInkAttrs

\* The range of the struct in the body, attributes included.
NestedItemRange ==
    LET toks == SelectSeq(EntitySyntax(entity),
                          LAMBDA t : t.node \in {"NESTED_ATTR", "NESTED"}) IN
    <<toks[1].range[1], toks[Len(toks)].range[2]>>

\* One Error per ink! attribute of the body, on the range of the attribute,
\* whose first quick-fix deletes that range.
OneErrorPerDescendant ==
    /\ Len(diags) = Len(NestedInkAttrs)
    /\ \A i \in 1..Len(diags) :
          /\ diags[i].severity = "Error"
          /\ \E t \in Range(EntitySyntax(entity)) :
                /\ t.range = diags[i].range
                /\ t.text = Concat(AttrSource(NestedInkAttrs[i]))
          /\ diags[i].quickfixes # None
          /\ Len(diags[i].quickfixes[1]) >= 1
          /\ diags[i].quickfixes[1][1].edits = <<[text |-> <<>>, range |-> diags[i].range]>>

\* The i-th diagnostic also offers to delete the whole struct.
OffersRemoveItem(i) ==
    /\ Len(diags[i].quickfixes[1]) = 2
    /\ diags[i].quickfixes[1][2].edits = <<[text |-> <<>>, range |-> NestedItemRange]>>

\* C12 as stated: the check emits one Error per ink! attribute among the
\* descendants of a message or test, and each carries both quick-fixes,
\* remove the attribute and remove the annotated item, the one of a topic
\* attribute on a record field included.
C12_BothQuickfixesEverywhere ==
    DiagnosedNested =>
        /\ OneErrorPerDescendant
        /\ \A i \in 1..Len(diags) : OffersRemoveItem(i)

\* C12 amended: the check emits one Error per ink! attribute among the
\* descendants of a message or test; each carries the quick-fix that
\* removes the attribute, and those of an attribute of an item also the
\* quick-fix that removes the item, while the one of an attribute of a
\* record field (a topic) carries the remove-attribute quick-fix only.
C12_RemoveItemForItemAttributes ==
    DiagnosedNested =>
        /\ OneErrorPerDescendant
        /\ \A i \in 1..Len(diags) :
              IF i <= Len(NestedItemInkAttrs) THEN OffersRemoveItem(i)
              ELSE Len(diags[i].quickfixes[1]) = 1

C12_Witness ==
    /\ DiagnosedNested
    /\ entity.scope = "test"
    /\ Len(NestedItemInkAttrs) = 1
    /\ Len(NestedFieldInkAttrs) = 1
    /\ Len(diags) = 2
    /\ Len(diags[1].quickfixes[1]) = 2
    /\ Len(diags[2].quickfixes[1]) = 1

\* ------------------------------------------------------------------------
\* crates/analyzer/src/analysis/completions.rs: macro completions, next to
\* the macro actions of item.rs, for a function with an attribute being
\* typed in front of it.
\* ------------------------------------------------------------------------
\* impl InkMacroKind: macro_name and crate_name
macro_name(macro_kind) ==
    CASE macro_kind = "ChainExtension" -> "chain_extension"
      [] macro_kind = "Contract" -> "contract"
      [] macro_kind = "StorageItem" -> "storage_item"
      [] macro_kind = "Test" -> "test"
      [] macro_kind = "TraitDefinition" -> "trait_definition"
      [] macro_kind = "E2ETest" -> "test"
      [] OTHER -> ""

\* A crate name that is `ink` for every known macro.
crate_name_always_ink(macro_kind) ==
    IF macro_kind = "Unknown" THEN "" ELSE "ink"

crate_name(macro_kind) ==
    CASE macro_kind \in {"ChainExtension", "Contract", "StorageItem", "Test",
                         "TraitDefinition"} -> "ink"
      [] macro_kind = "E2ETest" -> "ink_e2e"
      [] OTHER -> ""

\* The characters of the strings that are typed or suggested.
Chars(str) ==
    CASE str = "ink" -> <<"i", "n", "k">>
      [] str = "ink_e2e" -> <<"i", "n", "k", "_", "e", "2", "e">>
      [] str = "ink()" -> <<"i", "n", "k", "(", ")">>
      [] str = "i" -> <<"i">>
      [] str = "te" -> <<"t", "e">>
      [] str = "st" -> <<"s", "t">>
      [] str = "foo" -> <<"f", "o", "o">>
      [] str = "::" -> <<":", ":">>
      [] str = ":" -> <<":">>
      [] str = "[" -> <<"[">>
      [] str = "chain_extension" -> <<"c", "h", "a", "i", "n", "_", "e", "x", "t", "e", "n", "s", "i", "o", "n">>
      [] str = "contract" -> <<"c", "o", "n", "t", "r", "a", "c", "t">>
      [] str = "storage_item" -> <<"s", "t", "o", "r", "a", "g", "e", "_", "i", "t", "e", "m">>
      [] str = "test" -> <<"t", "e", "s", "t">>
      [] str = "trait_definition" -> <<"t", "r", "a", "i", "t", "_", "d", "e", "f", "i", "n", "i", "t", "i", "o", "n">>
      [] str = "additional_contracts" -> <<"a", "d", "d", "i", "t", "i", "o", "n", "a", "l", "_", "c", "o", "n", "t", "r", "a", "c", "t", "s">>
      [] str = "anonymous" -> <<"a", "n", "o", "n", "y", "m", "o", "u", "s">>
      [] str = "constructor" -> <<"c", "o", "n", "s", "t", "r", "u", "c", "t", "o", "r">>
      [] str = "default" -> <<"d", "e", "f", "a", "u", "l", "t">>
      [] str = "derive" -> <<"d", "e", "r", "i", "v", "e">>
      [] str = "env" -> <<"e", "n", "v">>
      [] str = "environment" -> <<"e", "n", "v", "i", "r", "o", "n", "m", "e", "n", "t">>
      [] str = "event" -> <<"e", "v", "e", "n", "t">>
      [] str = "extension" -> <<"e", "x", "t", "e", "n", "s", "i", "o", "n">>
      [] str = "handle_status" -> <<"h", "a", "n", "d", "l", "e", "_", "s", "t", "a", "t", "u", "s">>
      [] str = "impl" -> <<"i", "m", "p", "l">>
      [] str = "keep_attr" -> <<"k", "e", "e", "p", "_", "a", "t", "t", "r">>
      [] str = "message" -> <<"m", "e", "s", "s", "a", "g", "e">>
      [] str = "namespace" -> <<"n", "a", "m", "e", "s", "p", "a", "c", "e">>
      [] str = "payable" -> <<"p", "a", "y", "a", "b", "l", "e">>
      [] str = "selector" -> <<"s", "e", "l", "e", "c", "t", "o", "r">>
      [] str = "storage" -> <<"s", "t", "o", "r", "a", "g", "e">>
      [] str = "topic" -> <<"t", "o", "p", "i", "c">>
      [] str = "unknown" -> <<"u", "n", "k", "n", "o", "w", "n">>
      [] str = "e" -> <<"e">>
      [] str = "pa" -> <<"p", "a">>
      [] str = "con" -> <<"c", "o", "n">>

\* str::starts_with, the prefix given by its characters.
starts_with(str, prefix) ==
    /\ Len(prefix) <= Len(Chars(str))
    /\ SubSeq(Chars(str), 1, Len(prefix)) = prefix

\* A function, the attributes of the module around it (None at file
\* root), its other attributes, the path tokens typed so far in the
\* attribute `#[...]` in front of it, the token the offset is in or after
\* (1 is the left bracket) and the characters of that token before the
\* offset.
MacroContext(parent, fn_attrs, typed, cursor, prefix_len) ==
    [parent |-> parent, fn_attrs |-> fn_attrs, typed |-> typed, cursor |-> cursor,
     prefix_len |-> prefix_len]

\* The tokens of the attribute being typed.
TypedTokens(ctx) ==
    WithRanges(<<Word("#", "ATTR", "pound"), Word("[", "ATTR", "l_brack")>>
               \o [i \in 1..Len(ctx.typed) |-> Word(ctx.typed[i], "ATTR", "")]
               \o <<Word("]", "ATTR", "r_brack")>>, 0)

\* ItemAtOffset::focused_token, prev_non_trivia_token and the token before
\* that, focused_token_prefix.
focused_token(ctx) == TypedTokens(ctx)[ctx.cursor + 1]
prev_non_trivia_token(ctx) == TypedTokens(ctx)[ctx.cursor]
prev_prev_non_trivia_token(ctx) ==
    IF ctx.cursor >= 2 THEN Some(TypedTokens(ctx)[ctx.cursor - 1]) ELSE None
focused_token_prefix(ctx) ==
    SubSeq(Chars(focused_token(ctx).text), 1, ctx.prefix_len)

\* The function as a target of the macro actions.
FnTarget(ctx) ==
    [Target("FN", ctx.fn_attrs, 0, AttrStart(ctx.fn_attrs, Len(ctx.fn_attrs) + 1))
        EXCEPT !.parent_attrs = IF ctx.parent = None THEN <<>> ELSE ctx.parent[1]]

Completion(label, range_, detail, macro_kind) ==
    [label |-> label, range |-> range_,
     edit |-> TextEditReplace(<<label>>, range_), detail |-> detail,
     macro_kind |-> macro_kind]

\* Macro completions without the filter on the crate of the macro.
macro_completions_any_crate(ctx) ==
    LET focused == focused_token(ctx)
        prev == prev_non_trivia_token(ctx)
        focused_token_is_left_bracket == focused.role = "l_brack"
        prev_token_is_left_bracket == prev.role = "l_brack"
        focused_token_is_ink_crate_name == focused.text \in {"ink", "ink_e2e"}
        focused_token_is_ink_crate_name_or_colon_prefix ==
            focused_token_is_ink_crate_name \/ focused.text \in {"::", ":"}
        focused_token_is_in_ink_crate_path_segment ==
            \/ focused.text \in {"ink", "ink_e2e"} /\ prev.role = "l_brack"
            \/ focused.text \in {"::", ":"} /\ prev.text \in {"ink", "ink_e2e"}
            \/ /\ prev.text = "::"
               /\ prev_prev_non_trivia_token(ctx) # None
               /\ prev_prev_non_trivia_token(ctx)[1].text \in {"ink", "ink_e2e"}
        edit_range == IF focused_token_is_left_bracket
                      THEN <<focused.range[2], focused.range[2]>>
                      ELSE focused.range
        inks == ink_attrs(FnTarget(ctx))
        has_other_ink_siblings == inks # <<>>
        has_other_ink_macro_siblings ==
            \E i \in 1..Len(inks) : inks[i].kind.tag = "Macro"
        by_keyword == valid_ink_macros_by_syntax_kind("FN")
        by_crate == by_keyword
        by_prefix ==
            IF /\ ~focused_token_is_left_bracket
               /\ ~prev_token_is_left_bracket
               /\ ~focused_token_is_ink_crate_name_or_colon_prefix
            THEN SelectSeq(by_crate,
                           LAMBDA k : starts_with(macro_name(k), focused_token_prefix(ctx)))
            ELSE by_crate
        ink_macro_suggestions ==
            IF has_other_ink_siblings THEN <<>>
            ELSE remove_invalid_ink_macro_suggestions_for_parent_ink_scope(
                     by_prefix, FnTarget(ctx))
        ink_path_suggestions ==
            IF has_other_ink_siblings THEN <<"ink()">> ELSE <<"ink", "ink_e2e">>
    IN
    IF ~(\/ focused_token_is_left_bracket
         \/ prev_token_is_left_bracket
         \/ focused_token_is_in_ink_crate_path_segment)
    THEN <<>>
    ELSE IF ink_macro_suggestions # <<>>
    THEN [i \in 1..Len(ink_macro_suggestions) |->
            Completion(
                (IF \/ focused_token_is_left_bracket
                    \/ prev_token_is_left_bracket
                    \/ focused.text \in {"ink", "ink_e2e"}
                 THEN crate_name(ink_macro_suggestions[i]) ELSE "")
                \o (IF \/ focused_token_is_left_bracket
                       \/ prev_token_is_left_bracket
                       \/ focused_token_is_ink_crate_name_or_colon_prefix
                    THEN "::" ELSE "")
                \o macro_name(ink_macro_suggestions[i]),
                edit_range,
                "ink! " \o InkMacroKindDisplay(ink_macro_suggestions[i])
                    \o " attribute macro.",
                Some(ink_macro_suggestions[i]))]
    ELSE IF prev_token_is_left_bracket /\ ~has_other_ink_macro_siblings
    THEN LET kept == SelectSeq(ink_path_suggestions,
                               LAMBDA n : starts_with(n, focused_token_prefix(ctx))) IN
         [i \in 1..Len(kept) |-> Completion(kept[i], edit_range,
                                            IF kept[i] = "ink_e2e"
                                            THEN "ink! e2e attribute macro"
                                            ELSE IF kept[i] = "ink"
                                            THEN "ink! attribute macro"
                                            ELSE "ink! attribute", None)]
    ELSE <<>>

\* pub fn macro_completions
macro_completions(ctx) ==
    LET focused == focused_token(ctx)
        prev == prev_non_trivia_token(ctx)
        focused_token_is_left_bracket == focused.role = "l_brack"
        prev_token_is_left_bracket == prev.role = "l_brack"
        focused_token_is_ink_crate_name == focused.text \in {"ink", "ink_e2e"}
        focused_token_is_ink_crate_name_or_colon_prefix ==
            focused_token_is_ink_crate_name \/ focused.text \in {"::", ":"}
        focused_token_is_in_ink_crate_path_segment ==
            \/ focused.text \in {"ink", "ink_e2e"} /\ prev.role = "l_brack"
            \/ focused.text \in {"::", ":"} /\ prev.text \in {"ink", "ink_e2e"}
            \/ /\ prev.text = "::"
               /\ prev_prev_non_trivia_token(ctx) # None
               /\ prev_prev_non_trivia_token(ctx)[1].text \in {"ink", "ink_e2e"}
        edit_range == IF focused_token_is_left_bracket
                      THEN <<focused.range[2], focused.range[2]>>
                      ELSE focused.range
        inks == ink_attrs(FnTarget(ctx))
        has_other_ink_siblings == inks # <<>>
        has_other_ink_macro_siblings ==
            \E i \in 1..Len(inks) : inks[i].kind.tag = "Macro"
        by_keyword == valid_ink_macros_by_syntax_kind("FN")
        by_crate ==
            IF focused_token_is_in_ink_crate_path_segment
               /\ ~focused_token_is_ink_crate_name /\ ctx.typed # <<>>
            THEN SelectSeq(by_keyword, LAMBDA k : crate_name(k) = ctx.typed[1])
            ELSE by_keyword
        by_prefix ==
            IF /\ ~focused_token_is_left_bracket
               /\ ~prev_token_is_left_bracket
               /\ ~focused_token_is_ink_crate_name_or_colon_prefix
            THEN SelectSeq(by_crate,
                           LAMBDA k : starts_with(macro_name(k), focused_token_prefix(ctx)))
            ELSE by_crate
        ink_macro_suggestions ==
            IF has_other_ink_siblings THEN <<>>
            ELSE remove_invalid_ink_macro_suggestions_for_parent_ink_scope(
                     by_prefix, FnTarget(ctx))
        ink_path_suggestions ==
            IF has_other_ink_siblings THEN <<"ink()">> ELSE <<"ink", "ink_e2e">>
    IN
    IF ~(\/ focused_token_is_left_bracket
         \/ prev_token_is_left_bracket
         \/ focused_token_is_in_ink_crate_path_segment)
    THEN <<>>
    ELSE IF ink_macro_suggestions # <<>>
    THEN [i \in 1..Len(ink_macro_suggestions) |->
            Completion(
                (IF \/ focused_token_is_left_bracket
                    \/ prev_token_is_left_bracket
                    \/ focused.text \in {"ink", "ink_e2e"}
                 THEN crate_name(ink_macro_suggestions[i]) ELSE "")
                \o (IF \/ focused_token_is_left_bracket
                       \/ prev_token_is_left_bracket
                       \/ focused_token_is_ink_crate_name_or_colon_prefix
                    THEN "::" ELSE "")
                \o macro_name(ink_macro_suggestions[i]),
                edit_range,
                "ink! " \o InkMacroKindDisplay(ink_macro_suggestions[i])
                    \o " attribute macro.",
                Some(ink_macro_suggestions[i]))]
    ELSE IF prev_token_is_left_bracket /\ ~has_other_ink_macro_siblings
    THEN LET kept == SelectSeq(ink_path_suggestions,
                               LAMBDA n : starts_with(n, focused_token_prefix(ctx))) IN
         [i \in 1..Len(kept) |-> Completion(kept[i], edit_range,
                                            IF kept[i] = "ink_e2e"
                                            THEN "ink! e2e attribute macro"
                                            ELSE IF kept[i] = "ink"
                                            THEN "ink! attribute macro"
                                            ELSE "ink! attribute", None)]
    ELSE <<>>

\* The modules around the function, the other attributes of the function
\* and the attribute texts of the contexts.
ParentPool ==
    {None,
     Some(<<>>),
     Some(<<Attr(TRUE, <<"cfg">>, TRUE, <<Meta("test", NoValue)>>)>>),
     Some(<<Attr(TRUE, <<"cfg">>, TRUE,
                 <<Meta("all(test, feature = \"e2e-tests\")", NoValue)>>)>>)}

FnAttrLists ==
    {<<>>,
     <<Attr(TRUE, <<"foo">>, FALSE, <<>>)>>,
     <<Attr(TRUE, <<"ink">>, TRUE, <<Meta("message", NoValue)>>)>>}

TypedPool ==
    {<<>>, <<"i">>, <<"ink">>, <<"ink_e2e">>, <<"ink", "::">>, <<"ink", ":">>,
     <<"ink_e2e", "::">>, <<"ink", "::", "te">>, <<"ink", "::", "st">>,
     <<"ink_e2e", "::", "te">>, <<"foo">>, <<"foo", "::", "te">>,
     <<"ink_e2e", "::", "ink">>}

MacroContexts ==
    {MacroContext(parent, fn_attrs, typed, cursor, prefix_len) :
        parent \in ParentPool, fn_attrs \in FnAttrLists, typed \in TypedPool,
        cursor \in 1..4, prefix_len \in 1..2}

ValidMacroContext(ctx) ==
    /\ ctx.cursor <= Len(ctx.typed) + 1
    /\ ctx.prefix_len \in {1, Len(Chars((<<"[">> \o ctx.typed)[ctx.cursor]))}

MacrosInit ==
    /\ pc = "start"
    /\ project_name = None /\ project = None /\ kind_in = None /\ kind_out = None
    /\ item_focus = None /\ entity_call = None
    /\ context \in {ctx \in MacroContexts : ValidMacroContext(ctx)}
    /\ suggested = None
    /\ attr = None /\ castOut = None
    /\ item = None /\ flatOut = None /\ item2 = None /\ flatOut2 = None
    /\ params = None /\ recvOut = None /\ params2 = None /\ recvOut2 = None
    /\ file = None /\ range = None /\ focus = None /\ results = None
    /\ entity = None /\ diags = None /\ kinds = None /\ ordering = None

\* The macros the labels or edits of a result name.
SuggestedMacroKinds(path, out) ==
    IF path = "completions"
    THEN {out[i].macro_kind[1] : i \in {j \in 1..Len(out) : out[j].macro_kind # None}}
    ELSE {k \in InkMacroKind :
            \E i \in 1..Len(out) : out[i].edits[1].text = <<"#[", path_as_str(k), "]">>}

\* A refactor request on the declaration of the function.
MacroActions ==
    /\ pc = "start"
    /\ pc' = "suggested"
    /\ suggested' = [path |-> "actions",
                     out |-> ink_macro_actions(FnTarget(context), <<0, 0>>)]
    /\ UNCHANGED <<attr, castOut, item, flatOut, item2, flatOut2, params, recvOut,
                   params2, recvOut2, file, range, focus, results, entity, diags,
                   kinds, ordering, context,
                   item_focus, entity_call,
                   project_name, project, kind_in, kind_out>>

\* A completion request in the attribute being typed.
MacroCompletions ==
    /\ pc = "start"
    /\ pc' = "suggested"
    /\ suggested' = [path |-> "completions", out |-> macro_completions(context)]
    /\ UNCHANGED <<attr, castOut, item, flatOut, item2, flatOut2, params, recvOut,
                   params2, recvOut2, file, range, focus, results, entity, diags,
                   kinds, ordering, context,
                   item_focus, entity_call,
                   project_name, project, kind_in, kind_out>>

MacrosNext == MacroActions \/ MacroCompletions

SpecMacros == MacrosInit /\ [][MacrosNext]_vars

\* The module around the function carries exactly `#[cfg(test)]`, or
\* exactly `#[cfg(all(test, feature = "e2e-tests"))]`.
InCfgTestModule ==
    context.parent = Some(<<Attr(TRUE, <<"cfg">>, TRUE, <<Meta("test", NoValue)>>)>>)
InCfgE2ETestsModule ==
    context.parent = Some(<<Attr(TRUE, <<"cfg">>, TRUE,
                                 <<Meta("all(test, feature = \"e2e-tests\")", NoValue)>>)>>)
SuggestedMacros == SuggestedMacroKinds(suggested.path, suggested.out)

\* C13 as stated: on every suggestion path (refactor actions and macro
\* completions) a function is offered the test macro only inside a
\* `#[cfg(test)]` module and the e2e test macro only inside a
\* `#[cfg(all(test, feature = "e2e-tests"))]` module.
C13_CfgScopeOnEveryPath ==
    suggested # None =>
        /\ "Test" \in SuggestedMacros => InCfgTestModule
        /\ "E2ETest" \in SuggestedMacros => InCfgE2ETestsModule

\* C13, as the code has it: the refactor actions offer a function the test
\* macro only inside a module whose cfg attribute includes `test` (both
\* forms do) and the e2e test macro only inside the e2e-tests module, so a
\* function outside such a module gets neither from them; the macro
\* completions do not depend on the module around the function.
C13_CfgScopeOnRefactorActions ==
    suggested # None =>
        /\ suggested.path = "actions" =>
              /\ "Test" \in SuggestedMacros => InCfgTestModule \/ InCfgE2ETestsModule
              /\ "E2ETest" \in SuggestedMacros => InCfgE2ETestsModule
        /\ suggested.path = "completions" =>
              suggested.out = macro_completions([context EXCEPT !.parent = None])

\* A function inside the e2e-tests module is offered both macros by the
\* refactor actions.
C13_Witness ==
    /\ suggested # None
    /\ suggested.path = "actions"
    /\ InCfgE2ETestsModule
    /\ SuggestedMacros = {"Test", "E2ETest"}

\* ------------------------------------------------------------------------
\* crates/ir/src/attrs.rs and attrs/arg.rs: the ordering of attribute kinds.
\* ------------------------------------------------------------------------
\* Ord::cmp of two u8 ranks.
U8Cmp(lhs, rhs) ==
    IF lhs < rhs THEN "Less" ELSE IF lhs > rhs THEN "Greater" ELSE "Equal"

\* impl Ord for InkArgKind
InkArgKindCmp(lhs, rhs) ==
    U8Cmp(ink_arg_kind_sort_order(lhs), ink_arg_kind_sort_order(rhs))

\* impl Ord for InkAttributeKind
InkAttributeKindCmp(lhs, rhs) ==
    CASE lhs.tag = "Macro" /\ rhs.tag = "Macro" -> "Equal"
      [] lhs.tag = "Macro" /\ rhs.tag = "Arg" -> "Less"
      [] lhs.tag = "Arg" /\ rhs.tag = "Macro" -> "Greater"
      [] lhs.tag = "Arg" /\ rhs.tag = "Arg" -> InkArgKindCmp(lhs.kind, rhs.kind)

InkAttributeKinds ==
    {Macro(k) : k \in InkMacroKind} \cup {Arg(k) : k \in InkArgKind}

OrdInit ==
    /\ pc = "start"
    /\ project_name = None /\ project = None /\ kind_in = None /\ kind_out = None
    /\ item_focus = None /\ entity_call = None
    /\ kinds \in InkAttributeKinds \X InkAttributeKinds
    /\ ordering = None
    /\ attr = None /\ castOut = None
    /\ item = None /\ flatOut = None /\ item2 = None /\ flatOut2 = None
    /\ params = None /\ recvOut = None /\ params2 = None /\ recvOut2 = None
    /\ file = None /\ range = None /\ focus = None /\ results = None
    /\ entity = None /\ diags = None /\ context = None /\ suggested = None

\* lhs.cmp(&rhs)
Compare ==
    /\ pc = "start"
    /\ pc' = "compared"
    /\ ordering' = Some(InkAttributeKindCmp(kinds[1], kinds[2]))
    /\ UNCHANGED <<attr, castOut, item, flatOut, item2, flatOut2, params, recvOut,
                   params2, recvOut2, file, range, focus, results, entity, diags,
                   kinds, context, suggested,
                   item_focus, entity_call,
                   project_name, project, kind_in, kind_out>>

\* rhs.cmp(&lhs), after lhs.cmp(&rhs)
CompareReversed ==
    /\ pc = "compared"
    /\ pc' = "reversed"
    /\ ordering' = ordering \o Some(InkAttributeKindCmp(kinds[2], kinds[1]))
    /\ UNCHANGED <<attr, castOut, item, flatOut, item2, flatOut2, params, recvOut,
                   params2, recvOut2, file, range, focus, results, entity, diags,
                   kinds, context, suggested,
                   item_focus, entity_call,
                   project_name, project, kind_in, kind_out>>

OrdNext == Compare \/ CompareReversed

SpecOrd == OrdInit /\ [][OrdNext]_vars

\* The ranks the ordering is documented to use.
EntityTypeArgs ==
    {"Storage", "Event", "Impl", "Constructor", "Message", "Extension", "Topic"}
DocumentedRank(arg_kind) ==
    IF arg_kind \in EntityTypeArgs THEN 0
    ELSE IF arg_kind = "Unknown" THEN 10
    ELSE 1

\* C14: two macro kinds compare Equal, a macro kind is Less than any
\* argument kind (and an argument kind Greater than any macro kind), and
\* two argument kinds compare by their ranks alone (0 for the entity-type
\* arguments, 10 for Unknown, 1 for every other argument), so that
\* distinct argument kinds of the same rank compare Equal.
C14_KindOrdering ==
    ordering # None =>
        LET lhs == kinds[1]
            rhs == kinds[2]
            cmp == ordering[1] IN
        /\ lhs.tag = "Macro" /\ rhs.tag = "Macro" => cmp = "Equal"
        /\ lhs.tag = "Macro" /\ rhs.tag = "Arg" => cmp = "Less"
        /\ lhs.tag = "Arg" /\ rhs.tag = "Macro" => cmp = "Greater"
        /\ lhs.tag = "Arg" /\ rhs.tag = "Arg" =>
              /\ cmp = "Less" <=> DocumentedRank(lhs.kind) < DocumentedRank(rhs.kind)
              /\ cmp = "Equal" <=> DocumentedRank(lhs.kind) = DocumentedRank(rhs.kind)
              /\ cmp = "Greater" <=> DocumentedRank(lhs.kind) > DocumentedRank(rhs.kind)

\* Two distinct complementary arguments compared, both ways, as Equal.
C14_Witness ==
    /\ kinds = <<Arg("Payable"), Arg("Selector")>>
    /\ ordering = <<"Equal", "Equal">>

\* ------------------------------------------------------------------------
\* Properties of the focus on an item.
\* ------------------------------------------------------------------------
\* The declaration range D and the closing delimiter T of the item, and an
\* empty range at an offset.
DeclarationD == ast_item_declaration_range(file.item[1], SyntaxTokens(file))[1]
TerminalT == ast_item_terminal_token(file.item[1], SyntaxTokens(file))[1].range
FocusedWithBody ==
    /\ pc = "focused"
    /\ ast_item_declaration_range(file.item[1], SyntaxTokens(file)) # None
    /\ ast_item_terminal_token(file.item[1], SyntaxTokens(file)) # None
    /\ DeclarationD[2] < TerminalT[1]
    /\ range[1] = range[2]

\* C15: for an item with declaration range D and closing delimiter T with
\* D.end < T.start, an empty range at offset o has declaration focus iff
\* D.start <= o <= D.end or T.start <= o <= T.end, and body focus iff
\* D.end <= o <= T.start; so just after the opening and just before the
\* closing delimiter both hold, just before the opening and just after the
\* closing delimiter only declaration focus holds, and strictly between
\* only body focus holds.
C15_FocusAtBoundaries ==
    FocusedWithBody =>
        LET o == range[1] IN
        /\ item_focus.declaration <=>
              \/ DeclarationD[1] <= o /\ o <= DeclarationD[2]
              \/ TerminalT[1] <= o /\ o <= TerminalT[2]
        /\ item_focus.body <=> (DeclarationD[2] <= o /\ o <= TerminalT[1])
        /\ o \in {DeclarationD[2], TerminalT[1]} =>
              item_focus = [declaration |-> TRUE, body |-> TRUE]
        /\ o \in {DeclarationD[2] - 1, TerminalT[2]} =>
              item_focus = [declaration |-> TRUE, body |-> FALSE]
        /\ DeclarationD[2] < o /\ o < TerminalT[1] =>
              item_focus = [declaration |-> FALSE, body |-> TRUE]

\* The cursor just before the closing brace of `mod my_contract { }`.
C15_Witness ==
    /\ FocusedWithBody
    /\ FileText(file) = "mod my_contract { }"
    /\ range = <<18, 18>>
    /\ item_focus = [declaration |-> TRUE, body |-> TRUE]

\* C16: for an item whose declaration range cannot be resolved, neither
\* the declaration nor the body is in focus, whatever the range, the range
\* of its closing brace included.
C16_UnsupportedItemOutOfFocus ==
    (pc = "focused"
     /\ ast_item_declaration_range(file.item[1], SyntaxTokens(file)) = None) =>
        item_focus = [declaration |-> FALSE, body |-> FALSE]

\* The closing brace of `extern "C" { }` selected.
C16_Witness ==
    /\ pc = "focused"
    /\ FileText(file) = "extern \"C\" { }"
    /\ range = <<13, 14>>
    /\ item_focus = [declaration |-> FALSE, body |-> FALSE]

\* The range lies within one attribute of the item or of its record field.
RangeInAttribute ==
    \E i \in 1..Len(SyntaxTokens(file)) :
        /\ SyntaxTokens(file)[i].role = "attr"
        /\ contains_range(SyntaxTokens(file)[i].range, range)

\* C17: for a range covered by an attribute, of the ink! kind or not, on an
\* item or on a record field, actions returns no action at all and calls no
\* entity builder.
C17_NoActionsInAttribute ==
    (pc = "acted" /\ RangeInAttribute) =>
        /\ results = <<>>
        /\ entity_call = NoEntityCall

\* The cursor inside `#[abc]` on the record field of a struct.
C17_Witness ==
    /\ pc = "acted"
    /\ FileText(file) = "struct MyEvent { #[abc] my_field: u8 }"
    /\ range = <<18, 18>>
    /\ RangeInAttribute
    /\ results = <<>>

\* ------------------------------------------------------------------------
\* Properties of the insert offset of the entity actions.
\* ------------------------------------------------------------------------
\* The call resolved the range to a focused element and called an entity
\* builder.
EntityBuilderCalled ==
    /\ pc = "acted"
    /\ focus # None
    /\ entity_call.builder # "none"

\* The end of the range for a focused whitespace token that contains the
\* range, the end of the focused element otherwise.
RangeEndInWhitespace ==
    IF focus[1].kind = "WHITESPACE" /\ contains_range(focus[1].range, range)
    THEN range[2] ELSE focus[1].range[2]

OnItemHeader ==
    is_focused_on_item_declaration(file.item[1], SyntaxTokens(file), range)
OnItemBody == is_focused_on_item_body(file.item[1], SyntaxTokens(file), range)

\* The entity actions returned are those of the builder called, with the
\* offset handed to it.
EntityActionsFromCall ==
    /\ entity_call.builder = "item" =>
          EntityActionsOf(results)
              = item_ink_entity_actions(file.item[1], SyntaxTokens(file),
                                        entity_call.offset)
    /\ entity_call.builder = "root" =>
          results = root_ink_entity_actions(file, entity_call.offset[1])

\* C18 as stated: the insert offset of the body-level and root-level
\* entity actions is the end of the range for a focused whitespace token
\* that contains the range and the end of the focused element otherwise,
\* and with the focus on the header of the item no explicit offset is
\* handed to the entity builders.
C18_HeaderFocusPassesNoOffset ==
    EntityBuilderCalled =>
        /\ EntityActionsFromCall
        /\ entity_call.offset =
              IF entity_call.builder = "item" /\ OnItemHeader THEN None
              ELSE Some(RangeEndInWhitespace)

\* C18, as the code has it: the same insert offset, handed over whenever
\* the focus is on the body of the item, also where the range is on the
\* header as well (at either end of the body); no explicit offset is
\* handed to the entity builders when the focus is on the header only.
C18_BodyFocusPassesOffset ==
    EntityBuilderCalled =>
        /\ EntityActionsFromCall
        /\ entity_call.offset =
              IF entity_call.builder = "item" /\ ~OnItemBody THEN None
              ELSE Some(RangeEndInWhitespace)

\* The cursor between the two line breaks in the body of a module: the
\* offset is the cursor, not the end of the whitespace.
C18_Witness ==
    /\ EntityBuilderCalled
    /\ FileText(file) = "mod my_contract {\n\n}"
    /\ range = <<18, 18>>
    /\ focus[1].kind = "WHITESPACE"
    /\ entity_call = [builder |-> "item", offset |-> Some(18)]

\* ------------------------------------------------------------------------
\* Properties of the receiver diagnostic and its quick-fixes.
\* ------------------------------------------------------------------------
\* The function has been checked and flagged, with quick-fixes.
FlaggedWithQuickfixes ==
    /\ pc # "start"
    /\ recvOut # None
    /\ recvOut[1].quickfixes # None

\* C19 as stated: the two quick-fixes, the immutable one first, insert
\* right after the opening parenthesis of the parameter list, and the
\* inserted receiver is followed by ", " if and only if the parameter list
\* already holds a parameter of any form, a by-value self receiver
\* included.
C19_SeparatorIffOtherParameter ==
    FlaggedWithQuickfixes =>
        LET pl == param_list(Lex(params))[1]
            quickfixes == recvOut[1].quickfixes[1]
            at == <<pl.l_paren_token.range[2], pl.l_paren_token.range[2]>>
            separator == IF pl.inner # <<>> THEN <<",", " ">> ELSE <<>> IN
        /\ Len(quickfixes) = 2
        /\ quickfixes[1].label = "Add immutable self reference receiver"
        /\ quickfixes[2].label = "Add mutable self reference receiver"
        /\ quickfixes[1].edits = <<[text |-> <<"&", "self">> \o separator, range |-> at]>>
        /\ quickfixes[2].edits
              = <<[text |-> <<"&", "mut", " ", "self">> \o separator, range |-> at]>>

\* `fn my_message(self) {}`: the receiver is inserted in front of `self`
\* without a separator.
C19_ByValueSelfNoSeparator ==
    /\ FlaggedWithQuickfixes
    /\ params = FnText(TRUE, <<"self">>)
    /\ recvOut[1].quickfixes[1][1].edits = <<[text |-> <<"&", "self">>, range |-> <<30, 30>>]>>
    /\ recvOut[1].quickfixes[1][2].edits
          = <<[text |-> <<"&", "mut", " ", "self">>, range |-> <<30, 30>>]>>

\* The parameter list starts with `&self` or `&mut self`.
SelfWrittenWithAmp ==
    LET pl == param_list(Lex(params)) IN
    /\ pl # None
    /\ \/ Len(pl[1].inner) >= 2 /\ SubSeq(pl[1].inner, 1, 2) = <<"&", "self">>
       \/ Len(pl[1].inner) >= 3 /\ SubSeq(pl[1].inner, 1, 3) = <<"&", "mut", "self">>

\* The pieces of the function text include the given one.
HasPiece(piece) == \E i \in 1..Len(params) : params[i] = piece

\* The declaration of the function text: from `fn` (offset 16, after the
\* attribute) through the opening brace, which is the last character but
\* one, or through the semicolon, which is the last; the whole function if
\* it has neither.
DeclarationOrWholeFn ==
    IF HasPiece("{") THEN <<16, Len(Concat(params)) - 1>>
    ELSE IF HasPiece(";") THEN <<16, Len(Concat(params))>>
    ELSE <<0, Len(Concat(params))>>

\* C20: ensure_receiver_is_self_ref returns a diagnostic if and only if the
\* function has no self parameter written with `&`; the diagnostic is an
\* Error, its range is the declaration range of the function or, if that
\* cannot be resolved, the range of the whole function, and it carries
\* quick-fixes if and only if the function has a parameter list.
C20_FlaggedIffNoSelfReference ==
    pc = "checked" =>
        /\ recvOut # None <=> ~SelfWrittenWithAmp
        /\ recvOut # None =>
              /\ recvOut[1].severity = "Error"
              /\ recvOut[1].range = DeclarationOrWholeFn
              /\ recvOut[1].quickfixes # None <=> HasPiece("(")

\* `fn my_message(self)` cut off after its parameter list: flagged, with
\* the range of the whole function and with quick-fixes.
C20_Witness ==
    /\ pc = "checked"
    /\ Concat(params) = "#[ink(message)] fn my_message(self)"
    /\ recvOut # None
    /\ recvOut[1].range = <<0, 35>>
    /\ recvOut[1].quickfixes # None

\* ------------------------------------------------------------------------
\* Properties of ensure_not_return_self.
\* ------------------------------------------------------------------------
ReturnSelfDiagnostics ==
    SelectSeq(diags, LAMBDA d : d.message = "ink! message must not return Self.")

MaxNameLen == 3

\* The characters names are made of: letters, a digit, the two separators a
\* package name allows, and two characters it does not allow.
NameChars == {"h", "W", "1", "_", "-", "!", " "}

\* char::is_alphabetic and char::is_alphanumeric
is_alphabetic(c) == c \in {"h", "W"}
is_alphanumeric(c) == is_alphabetic(c) \/ c = "1"

\* str::replace of one character by another.
replace_char(chars, from, to) ==
    [i \in 1..Len(chars) |-> IF chars[i] = from THEN to ELSE chars[i]]

Literal(text) == [literal |-> text]

\* str::replace on a template: the part that is the pattern becomes the
\* replacement.
replace_part(template, from, to) ==
    [i \in 1..Len(template) |-> IF template[i] = Literal(from) THEN to ELSE template[i]]

\* utils::pascal_case of the module name; the struct name is kept as the
\* module name it is made from.
pascal_case(chars) == [pascal_case |-> chars]

\* snippets::CONTRACT_PLAIN, CONTRACT_SNIPPET, CARGO_TOML_PLAIN and
\* CARGO_TOML_SNIPPET, around the names they hold.
CONTRACT_PLAIN ==
    <<Literal("#[ink::contract] pub mod "), Literal("my_contract"),
      Literal(" { #[ink(storage)] pub struct "), Literal("MyContract"),
      Literal(" {} }")>>
CONTRACT_SNIPPET ==
    <<Literal("#[ink::contract] pub mod "), Literal("my_contract"),
      Literal(" { #[ink(storage)] pub struct "), Literal("MyContract"),
      Literal(" { $1 } }")>>
CARGO_TOML_PLAIN ==
    <<Literal("[package] name = \""), Literal("my_contract"), Literal("\"")>>
CARGO_TOML_SNIPPET ==
    <<Literal("[package] name = \""), Literal("my_contract"), Literal("\" $1")>>

Ok(value) == [ok |-> value]
Err(error) == [err |-> error]

\* new_project: is the name a valid Rust package name
valid_package_name(chars) ==
    /\ chars # <<>>
    /\ \A i \in 1..Len(chars) : is_alphanumeric(chars[i]) \/ chars[i] \in {"_", "-"}

\* new_project: does the name begin with an alphabetic character
valid_contract_name(chars) == chars # <<>> /\ is_alphabetic(chars[1])

\* new_project: the project of a valid name
generate_project(chars) ==
    LET module_name == replace_char(chars, "-", "_")
        struct_name == pascal_case(module_name) IN
    [lib |-> [plain |-> replace_part(replace_part(CONTRACT_PLAIN, "my_contract",
                                                  [chars |-> module_name]),
                                     "MyContract", struct_name),
              snippet |-> Some(replace_part(replace_part(CONTRACT_SNIPPET, "my_contract",
                                                         [chars |-> module_name]),
                                            "MyContract", struct_name))],
     cargo |-> [plain |-> replace_part(CARGO_TOML_PLAIN, "my_contract", [chars |-> chars]),
                snippet |-> Some(replace_part(CARGO_TOML_SNIPPET, "my_contract",
                                              [chars |-> chars]))]]

\* A validation that looks at the first character first.
new_project_contract_name_first(chars) ==
    IF ~valid_contract_name(chars) THEN Err("ContractName")
    ELSE IF ~valid_package_name(chars) THEN Err("PackageName")
    ELSE Ok(generate_project(chars))

\* pub fn new_project
new_project(chars) ==
    IF ~valid_package_name(chars) THEN Err("PackageName")
    ELSE IF ~valid_contract_name(chars) THEN Err("ContractName")
    ELSE Ok(generate_project(chars))

ProjectNames == SeqsUpTo(NameChars, MaxNameLen)

ProjectInit ==
    /\ pc = "start"
    /\ project_name \in ProjectNames
    /\ project = None
    /\ attr = None /\ castOut = None
    /\ item = None /\ flatOut = None /\ item2 = None /\ flatOut2 = None
    /\ params = None /\ recvOut = None /\ params2 = None /\ recvOut2 = None
    /\ file = None /\ range = None /\ focus = None /\ results = None
    /\ entity = None /\ diags = None /\ kinds = None /\ ordering = None
    /\ context = None /\ suggested = None
    /\ item_focus = None /\ entity_call = None
    /\ kind_in = None /\ kind_out = None

NewProject ==
    /\ pc = "start"
    /\ pc' = "generated"
    /\ project' = new_project(project_name)
    /\ UNCHANGED <<attr, castOut, item, flatOut, item2, flatOut2, params, recvOut,
                   params2, recvOut2, file, range, focus, results, entity, diags,
                   kinds, ordering, context, suggested, item_focus, entity_call,
                   project_name, kind_in, kind_out>>

ProjectNext == NewProject

SpecProject == ProjectInit /\ [][ProjectNext]_vars

\* The name is empty or holds a character other than a letter, a digit,
\* `_` and `-`; the name does not begin with a letter.
BadPackageName ==
    \/ project_name = <<>>
    \/ \E i \in 1..Len(project_name) : project_name[i] \notin {"h", "W", "1", "_", "-"}
BadContractName == project_name = <<>> \/ project_name[1] \notin {"h", "W"}

\* The name with every `-` replaced by `_`.
RECURSIVE Underscored(_)
Underscored(chars) ==
    IF chars = <<>> THEN <<>>
    ELSE <<IF Head(chars) = "-" THEN "_" ELSE Head(chars)>> \o Underscored(Tail(chars))

\* C22: new_project returns Err(PackageName) iff the name is empty or holds
\* a character that is not alphanumeric, `_` or `-`; otherwise
\* Err(ContractName) iff the first character is not alphabetic; otherwise
\* Ok, with the name with `-` replaced by `_` as the module name of lib.rs
\* and the unchanged name in Cargo.toml.
C22_ProjectNameValidation ==
    pc = "generated" =>
        /\ project = Err("PackageName") <=> BadPackageName
        /\ ~BadPackageName => (project = Err("ContractName") <=> BadContractName)
        /\ (~BadPackageName /\ ~BadContractName) =>
              /\ project.ok.lib.plain[2] = [chars |-> Underscored(project_name)]
              /\ project.ok.lib.snippet[1][2] = [chars |-> Underscored(project_name)]
              /\ project.ok.cargo.plain[2] = [chars |-> project_name]
              /\ project.ok.cargo.snippet[1][2] = [chars |-> project_name]

\* `h-W`: the module is `h_W`, the package `h-W`.
C22_Witness ==
    /\ pc = "generated"
    /\ project_name = <<"h", "-", "W">>
    /\ project.ok.lib.plain[2] = [chars |-> <<"h", "_", "W">>]
    /\ project.ok.cargo.plain[2] = [chars |-> <<"h", "-", "W">>]

\* ------------------------------------------------------------------------
\* Properties of the attribute-argument actions.
\* ------------------------------------------------------------------------
\* The call computed the actions of an item or of its record field.
ActedOnItem ==
    /\ pc = "acted"
    /\ file.item # None
    /\ focus # None
    /\ focus[1].node # "ROOT"

\* The target of the attribute actions, the record field in focus or the
\* item, the range the actions are given for it, and the ink! attribute of
\* the target that can take another argument.
ActedTarget ==
    IF focus[1].node = "FIELD"
    THEN FieldTarget(file.item[1].field[1], SyntaxTokens(file))
    ELSE ItemTarget(file.item[1], SyntaxTokens(file))
ActedDeclarationRange ==
    IF focus[1].node = "FIELD" THEN FieldRange(SyntaxTokens(file))
    ELSE <<TokenWith(SyntaxTokens(file), "keyword").range[1],
           TokenWith(SyntaxTokens(file), "l_curly").range[2]>>
HostAttribute == primary_ink_attribute_candidate(ink_attrs(ActedTarget))

ArgActions == SelectSeq(results, LAMBDA a : Family(a) = 2)

\* The argument of the action is an entity-type argument.
AddsEntityTypeArg(a) ==
    \E k \in EntityTypeArgs :
        a.label = "Add ink! " \o InkArgKindDisplay(k) \o " attribute argument."

\* The offset just before the closing delimiter of the attribute, `)` or,
\* without a token tree, `]`.
BeforeClosingDelimiter(ink_attr) ==
    ink_attr.text_range[2] - (IF ink_attr.ast.token_tree THEN 2 ELSE 1)

\* The action inserts a new `#[ink(<arg>)]` in front of the target and has
\* the range of the declaration.
InsertsNewAttribute(a) ==
    /\ Head(a.edits[1].text) = "#[ink("
    /\ a.edits[1].text[Len(a.edits[1].text)] = ")]"
    /\ a.edits[1].range = <<ActedTarget.first_token, ActedTarget.first_token>>
    /\ a.range = ActedDeclarationRange

\* An argument added to an existing attribute goes just before the closing
\* delimiter of the attribute, after ", " only if the attribute has
\* arguments, and the action has the range of the attribute; an argument
\* no attribute can take is added as a new attribute.
C23_ExtensionBeforeClosingDelimiter ==
    ActedOnItem =>
        \A i \in 1..Len(ArgActions) :
            LET a == ArgActions[i] IN
            /\ Len(a.edits) = 1
            /\ IF HostAttribute = None THEN InsertsNewAttribute(a)
               ELSE /\ a.range = HostAttribute[1].text_range
                    /\ a.edits[1].range = <<BeforeClosingDelimiter(HostAttribute[1]),
                                            BeforeClosingDelimiter(HostAttribute[1])>>
                    /\ Head(a.edits[1].text) = ", " => HostAttribute[1].args # <<>>

\* C23: an argument added to an existing primary ink! attribute goes just
\* before the closing delimiter of the attribute, after ", " only if the
\* attribute has arguments, unless it is an entity-type argument added to
\* an attribute with an argument list: that one goes just after the opening
\* parenthesis, with no ", " in front and with ", " behind it if the
\* attribute has arguments.  An argument no attribute can take is added as
\* a new `#[ink(<arg>)]` at the attribute insertion offset of the target.
\* The range of the action is the range of the extended attribute in the
\* first case and the range of the declaration in the second.
C23_ExtensionOffsetAndSeparator ==
    ActedOnItem =>
        \A i \in 1..Len(ArgActions) :
            LET a == ArgActions[i] IN
            /\ Len(a.edits) = 1
            /\ IF HostAttribute = None THEN InsertsNewAttribute(a)
               ELSE /\ a.range = HostAttribute[1].text_range
                    /\ IF AddsEntityTypeArg(a) /\ HostAttribute[1].ast.token_tree
                       THEN /\ a.edits[1].range = <<HostAttribute[1].text_range[1] + 6,
                                                    HostAttribute[1].text_range[1] + 6>>
                            /\ Head(a.edits[1].text) # ", "
                            /\ a.edits[1].text[Len(a.edits[1].text)] = ", "
                                  <=> HostAttribute[1].args # <<>>
                       ELSE /\ a.edits[1].range
                                  = <<BeforeClosingDelimiter(HostAttribute[1]),
                                      BeforeClosingDelimiter(HostAttribute[1])>>
                            /\ Head(a.edits[1].text) = ", "
                                  => HostAttribute[1].args # <<>>

\* `event` added to `#[ink(anonymous)]`: `event, ` at the end of `#[ink(`.
C23_Witness ==
    /\ pc = "acted"
    /\ FileText(file) = "#[ink(anonymous)] struct MyEvent {}"
    /\ range = <<18, 18>>
    /\ Len(results) = 1
    /\ results[1].label = "Add ink! event attribute argument."
    /\ results[1].range = <<0, 17>>
    /\ results[1].edits = <<[text |-> <<"event", ", ">>, range |-> <<6, 6>>,
                              snippet |-> None]>>

\* ------------------------------------------------------------------------
\* crates/analyzer/src/analysis/completions.rs: argument completions, next
\* to the argument actions of item.rs.  The attribute being typed ends at
\* the offset of the request, unless `=` follows the offset.
\* ------------------------------------------------------------------------
\* The syntax kind of the item the attribute belongs to (None without an
\* item), the attributes of that item for the actions, and the attribute
\* being typed: its path, its complete arguments, what is typed after them
\* and whether `=` comes next.
ArgContext(parent_kind, item_attrs, path, metas, tail, next_is_eq) ==
    [parent_kind |-> parent_kind, item_attrs |-> item_attrs, path |-> path,
     metas |-> metas, tail |-> tail, next_is_eq |-> next_is_eq]

\* The tokens of the attribute being typed, up to the offset.
ArgTypedTokens(ctx) ==
    LET texts == <<"#", "[">>
                 \o Interleave([i \in 1..Len(ctx.path) |-> <<ctx.path[i]>>], "::")
                 \o <<"(">>
                 \o Flat([i \in 1..Len(ctx.metas) |->
                            (IF i = 1 THEN <<>> ELSE <<",", " ">>)
                            \o MetaSource(ctx.metas[i])])
                 \o ctx.tail IN
    WithRanges([i \in 1..Len(texts) |->
                   IF texts[i] = " " THEN Space("ATTR")
                   ELSE Word(texts[i], "ATTR",
                             IF texts[i] = "(" THEN "l_paren"
                             ELSE IF texts[i] = "," THEN "comma" ELSE "")], 0)

\* utils::ink_arg_insert_text for an offset: nothing but the name of the
\* argument, and no snippet, if `=` follows the offset.
ink_arg_insert_text_at(arg_kind, next_is_eq) ==
    IF next_is_eq
    THEN [edit |-> <<Head(ink_arg_insert_text(arg_kind))>>, snippet |-> None]
    ELSE [edit |-> ink_arg_insert_text(arg_kind),
          snippet |-> ink_arg_insert_snippet(arg_kind)]

\* utils::remove_duplicate_conflicting_and_invalid_scope_ink_arg_suggestions
remove_duplicate_conflicting_and_invalid_scope_ink_arg_suggestions(suggestions, ink_attr) ==
    SelectSeq(suggestions,
              LAMBDA k :
                  /\ \A i \in 1..Len(ink_attr.args) : ink_attr.args[i].kind # k
                  /\ ink_attr.kind.kind = "Unknown"
                        \/ k \in Range(valid_sibling_ink_args(ink_attr.kind)))

\* TextEdit::replace_with_snippet
TextEditReplaceWithSnippet(text, range_, snippet) ==
    [text |-> text, range |-> range_, snippet |-> snippet]

\* Completions whose snippet lacks the space put after a comma.
argument_completions_snippet_without_prefix(ctx) ==
    LET toks == ArgTypedTokens(ctx)
        focused == toks[Len(toks)]
        nontrivia == SelectSeq(SubSeq(toks, 1, Len(toks) - 1),
                               LAMBDA t : t.kind # "WHITESPACE")
        prev == nontrivia[Len(nontrivia)]
        cast == InkAttributeCast(Attr(TRUE, ctx.path, TRUE, ctx.metas))
        focused_token_is_left_parenthesis == focused.role = "l_paren"
        prev_non_trivia_token_is_left_parenthesis == prev.role = "l_paren"
        focused_token_is_comma == focused.role = "comma"
        prev_non_trivia_token_is_comma == prev.role = "comma"
        prev_token_is_whitespace == toks[Len(toks) - 1].kind = "WHITESPACE"
        edit_range == IF focused_token_is_left_parenthesis \/ focused_token_is_comma
                      THEN <<focused.range[2], focused.range[2]>>
                      ELSE focused.range
        initial == IF cast[1].kind.kind = "Unknown"
                   THEN IF ctx.parent_kind # None
                        THEN valid_ink_args_by_syntax_kind(ctx.parent_kind[1])
                        ELSE <<"Anonymous", "Constructor", "Default", "Event",
                               "Extension", "HandleStatus", "Impl", "Message",
                               "Namespace", "Payable", "Selector", "Storage", "Topic">>
                   ELSE valid_sibling_ink_args(cast[1].kind)
        filtered == remove_duplicate_conflicting_and_invalid_scope_ink_arg_suggestions(
                        initial, cast[1])
        ink_arg_suggestions ==
            IF ~focused_token_is_left_parenthesis /\ ~focused_token_is_comma
            THEN SelectSeq(filtered,
                           LAMBDA k : starts_with(InkArgKindDisplay(k), Chars(focused.text)))
            ELSE filtered
        separator == IF \/ focused_token_is_comma
                        \/ prev_non_trivia_token_is_comma /\ ~prev_token_is_whitespace
                     THEN <<" ">> ELSE <<>> IN
    IF cast = None THEN <<>>
    ELSE IF ~(\/ focused_token_is_left_parenthesis
              \/ prev_non_trivia_token_is_left_parenthesis
              \/ focused_token_is_comma
              \/ prev_non_trivia_token_is_comma)
    THEN <<>>
    ELSE [i \in 1..Len(ink_arg_suggestions) |->
            LET inserted == ink_arg_insert_text_at(ink_arg_suggestions[i], ctx.next_is_eq) IN
            [label |-> Concat(inserted.edit),
             range |-> edit_range,
             edit |-> TextEditReplaceWithSnippet(
                          separator \o inserted.edit, edit_range, inserted.snippet),
             detail |-> "ink! " \o InkArgKindDisplay(ink_arg_suggestions[i])
                        \o " attribute argument."]]

\* pub fn argument_completions
argument_completions(ctx) ==
    LET toks == ArgTypedTokens(ctx)
        focused == toks[Len(toks)]
        nontrivia == SelectSeq(SubSeq(toks, 1, Len(toks) - 1),
                               LAMBDA t : t.kind # "WHITESPACE")
        prev == nontrivia[Len(nontrivia)]
        cast == InkAttributeCast(Attr(TRUE, ctx.path, TRUE, ctx.metas))
        focused_token_is_left_parenthesis == focused.role = "l_paren"
        prev_non_trivia_token_is_left_parenthesis == prev.role = "l_paren"
        focused_token_is_comma == focused.role = "comma"
        prev_non_trivia_token_is_comma == prev.role = "comma"
        prev_token_is_whitespace == toks[Len(toks) - 1].kind = "WHITESPACE"
        edit_range == IF focused_token_is_left_parenthesis \/ focused_token_is_comma
                      THEN <<focused.range[2], focused.range[2]>>
                      ELSE focused.range
        initial == IF cast[1].kind.kind = "Unknown"
                   THEN IF ctx.parent_kind # None
                        THEN valid_ink_args_by_syntax_kind(ctx.parent_kind[1])
                        ELSE <<"Anonymous", "Constructor", "Default", "Event",
                               "Extension", "HandleStatus", "Impl", "Message",
                               "Namespace", "Payable", "Selector", "Storage", "Topic">>
                   ELSE valid_sibling_ink_args(cast[1].kind)
        filtered == remove_duplicate_conflicting_and_invalid_scope_ink_arg_suggestions(
                        initial, cast[1])
        ink_arg_suggestions ==
            IF ~focused_token_is_left_parenthesis /\ ~focused_token_is_comma
            THEN SelectSeq(filtered,
                           LAMBDA k : starts_with(InkArgKindDisplay(k), Chars(focused.text)))
            ELSE filtered
        separator == IF \/ focused_token_is_comma
                        \/ prev_non_trivia_token_is_comma /\ ~prev_token_is_whitespace
                     THEN <<" ">> ELSE <<>> IN
    IF cast = None THEN <<>>
    ELSE IF ~(\/ focused_token_is_left_parenthesis
              \/ prev_non_trivia_token_is_left_parenthesis
              \/ focused_token_is_comma
              \/ prev_non_trivia_token_is_comma)
    THEN <<>>
    ELSE [i \in 1..Len(ink_arg_suggestions) |->
            LET inserted == ink_arg_insert_text_at(ink_arg_suggestions[i], ctx.next_is_eq) IN
            [label |-> Concat(inserted.edit),
             range |-> edit_range,
             edit |-> TextEditReplaceWithSnippet(
                          separator \o inserted.edit, edit_range,
                          IF inserted.snippet = None THEN None
                          ELSE Some(separator \o inserted.snippet[1])),
             detail |-> "ink! " \o InkArgKindDisplay(ink_arg_suggestions[i])
                        \o " attribute argument."]]

\* The items of the contexts and the attributes they carry.
ArgParentKinds == {None, Some("FN"), Some("STRUCT"), Some("IMPL")}

ArgItemAttrLists ==
    {<<>>,
     <<Attr(TRUE, <<"ink">>, TRUE, <<Meta("event", NoValue)>>)>>,
     <<Attr(TRUE, <<"ink">>, TRUE, <<Meta("anonymous", NoValue)>>)>>,
     <<Attr(TRUE, <<"ink">>, TRUE, <<Meta("constructor", NoValue)>>)>>,
     <<Attr(TRUE, <<"ink">>, TRUE, <<Meta("extension", "1")>>)>>,
     <<Attr(TRUE, <<"ink">>, TRUE, <<Meta("impl", NoValue)>>)>>,
     <<Attr(TRUE, <<"ink", "contract">>, FALSE, <<>>)>>,
     <<Attr(TRUE, <<"ink", "contract">>, TRUE, <<Meta("env", "crate::Environment")>>)>>,
     <<Attr(TRUE, <<"ink", "storage_item">>, FALSE, <<>>)>>,
     <<Attr(TRUE, <<"ink_e2e", "test">>, FALSE, <<>>)>>,
     <<Attr(TRUE, <<"foo">>, FALSE, <<>>)>>}

\* The attributes being typed: `#[ink(`, `#[ink(e`, `#[ink(con`,
\* `#[ink(message,`, `#[ink(message, pa`, `#[ink(message,pa`,
\* `#[ink(impl,`, `#[ink::contract(`, `#[cfg(` and the like.
ArgTypedPool ==
    {[path |-> p, metas |-> <<>>, tail |-> t] :
        p \in {<<"ink">>, <<"ink", "contract">>, <<"ink", "trait_definition">>,
               <<"ink_e2e", "test">>, <<"cfg">>},
        t \in {<<>>, <<"e">>, <<"con">>}}
    \cup {[path |-> <<"ink">>, metas |-> <<Meta(n, NoValue)>>, tail |-> t] :
            n \in {"message", "constructor", "event", "impl"},
            t \in {<<",">>, <<",", "pa">>, <<",", " ", "pa">>, <<",", " ", "e">>}}
    \cup {[path |-> <<"ink", "contract">>,
           metas |-> <<Meta("env", "my::env::Types")>>, tail |-> t] :
            t \in {<<",">>, <<",", " ", "e">>}}
    \cup {[path |-> <<"ink">>, metas |-> <<Meta("extension", "1")>>, tail |-> <<",">>]}

ArgContexts ==
    {ArgContext(parent_kind, item_attrs, typed.path, typed.metas, typed.tail, next_is_eq) :
        parent_kind \in ArgParentKinds, item_attrs \in ArgItemAttrLists,
        typed \in ArgTypedPool, next_is_eq \in BOOLEAN}

\* `=` can follow the offset where an argument is about to be typed.
ValidArgContext(ctx) ==
    ctx.next_is_eq => ctx.tail \in {<<>>, <<",">>}

ArgumentsInit ==
    /\ pc = "start"
    /\ context \in {ctx \in ArgContexts : ValidArgContext(ctx)}
    /\ suggested = None
    /\ project_name = None /\ project = None /\ kind_in = None /\ kind_out = None
    /\ item_focus = None /\ entity_call = None
    /\ attr = None /\ castOut = None
    /\ item = None /\ flatOut = None /\ item2 = None /\ flatOut2 = None
    /\ params = None /\ recvOut = None /\ params2 = None /\ recvOut2 = None
    /\ file = None /\ range = None /\ focus = None /\ results = None
    /\ entity = None /\ diags = None /\ kinds = None /\ ordering = None

\* The item of the context as a target of the argument actions.
ArgTarget(ctx) ==
    Target(IF ctx.parent_kind = None THEN "MODULE" ELSE ctx.parent_kind[1],
           ctx.item_attrs, 0, AttrStart(ctx.item_attrs, Len(ctx.item_attrs) + 1))

\* A refactor request on the declaration of the item.
ArgumentActions ==
    /\ pc = "start"
    /\ pc' = "suggested"
    /\ suggested' = [path |-> "actions",
                     out |-> ink_arg_actions(ArgTarget(context), <<0, 0>>)]
    /\ UNCHANGED <<attr, castOut, item, flatOut, item2, flatOut2, params, recvOut,
                   params2, recvOut2, file, range, focus, results, entity, diags,
                   kinds, ordering, context, item_focus, entity_call,
                   project_name, project, kind_in, kind_out>>

\* A completion request at the end of the attribute being typed.
ArgumentCompletions ==
    /\ pc = "start"
    /\ pc' = "suggested"
    /\ suggested' = [path |-> "completions", out |-> argument_completions(context)]
    /\ UNCHANGED <<attr, castOut, item, flatOut, item2, flatOut2, params, recvOut,
                   params2, recvOut2, file, range, focus, results, entity, diags,
                   kinds, ordering, context, item_focus, entity_call,
                   project_name, project, kind_in, kind_out>>

ArgumentsNext == ArgumentActions \/ ArgumentCompletions

SpecArguments == ArgumentsInit /\ [][ArgumentsNext]_vars

\* The snippet without its placeholder decoration.
StripPlaceholders(pieces) == SelectSeq(pieces, LAMBDA piece : piece \notin {"${1:", "}"})

\* The edits of the suggestions, of either path.
SuggestedEdits ==
    [i \in 1..Len(suggested.out) |->
        IF suggested.path = "actions" THEN suggested.out[i].edits[1]
        ELSE suggested.out[i].edit]

\* The argument a suggestion adds, and its text as ink_arg_insert_text gives
\* it for the place of the suggestion.
SuggestedArg(i) ==
    CHOOSE k \in InkArgKind :
        IF suggested.path = "actions"
        THEN suggested.out[i].label
                = "Add ink! " \o InkArgKindDisplay(k) \o " attribute argument."
        ELSE suggested.out[i].detail
                = "ink! " \o InkArgKindDisplay(k) \o " attribute argument."
SuggestedArgText(i) ==
    IF suggested.path = "actions" THEN ink_arg_insert_text_at(SuggestedArg(i), FALSE)
    ELSE ink_arg_insert_text_at(SuggestedArg(i), context.next_is_eq)

\* The text starts with `#[ink(` and ends with `)]`.
Wrapped(pieces) == Head(pieces) = "#[ink(" /\ pieces[Len(pieces)] = ")]"

\* C24: the snippet of an argument action or of an argument completion, if
\* there is one, is the plain text with placeholder decoration: without the
\* decoration it is the plain text, prefix, suffix and `#[ink(...)]`
\* wrapper included, and the wrapper is there iff the action inserts a new
\* attribute; there is no snippet exactly when the text of the argument
\* has none.
C24_PlainSnippetParity ==
    suggested # None =>
        \A i \in 1..Len(suggested.out) :
            LET e == SuggestedEdits[i] IN
            /\ e.snippet = None <=> SuggestedArgText(i).snippet = None
            /\ e.snippet # None =>
                  /\ StripPlaceholders(e.snippet[1]) = e.text
                  /\ e.snippet[1] # e.text
                  /\ Wrapped(e.snippet[1]) <=> Wrapped(e.text)
            /\ Wrapped(e.text)
                  <=> /\ suggested.path = "actions"
                      /\ ink_attrs(ArgTarget(context)) = <<>>

\* `#[ink(constructor,` is completed with ` selector = 1`, the snippet with
\* ` selector = ${1:1}`, and a function without attributes gets
\* `#[ink(selector = 1)]` with the snippet `#[ink(selector = ${1:1})]`.
C24_Witness ==
    /\ suggested # None
    /\ \/ /\ suggested.path = "completions"
          /\ context.metas = <<Meta("constructor", NoValue)>>
          /\ context.tail = <<",">>
          /\ ~context.next_is_eq
          /\ \E i \in 1..Len(suggested.out) :
                /\ Concat(suggested.out[i].edit.text) = " selector = 1"
                /\ Concat(suggested.out[i].edit.snippet[1]) = " selector = ${1:1}"
       \/ /\ suggested.path = "actions"
          /\ context.parent_kind = Some("FN")
          /\ context.item_attrs = <<>>
          /\ \E i \in 1..Len(suggested.out) :
                /\ Concat(suggested.out[i].edits[1].text) = "#[ink(selector = 1)]"
                /\ suggested.out[i].edits[1].snippet # None
                /\ Concat(suggested.out[i].edits[1].snippet[1])
                      = "#[ink(selector = ${1:1})]"

\* ------------------------------------------------------------------------
\* Properties of the attribute-macro actions.
\* ------------------------------------------------------------------------
MacroAddActions == SelectSeq(results, LAMBDA a : Family(a) = 1)

\* The attributes of the target whose path starts with `ink` or `ink_e2e`.
TargetInkAttrs == SelectSeq(ActedTarget.attrs, IsInkPath)

C25Example == "#[abc] mod my_contract {}"

\* C25: attribute-macro add actions are offered only for a target without
\* any ink! attribute, be it a macro or an argument, of a known or of an
\* unknown kind; a module with nothing but a non-ink attribute,
\* `#[abc] mod my_contract {}`, is still offered `#[ink::contract]`,
\* inserted immediately before `mod`.
C25_MacroActionsOnlyWithoutInkAttribute ==
    ActedOnItem =>
        /\ MacroAddActions # <<>> => TargetInkAttrs = <<>>
        /\ (FileText(file) = C25Example /\ range = <<7, 7>>) =>
              /\ Len(MacroAddActions) = 1
              /\ MacroAddActions[1].label = "Add ink! contract attribute macro."
              /\ MacroAddActions[1].edits
                    = <<[text |-> <<"#[", "ink::contract", "]">>, range |-> <<7, 7>>]>>

C25_Witness ==
    /\ pc = "acted"
    /\ FileText(file) = C25Example
    /\ range = <<7, 7>>
    /\ focus # None /\ focus[1].text = "mod"
    /\ results # <<>>
    /\ results[1].label = "Add ink! contract attribute macro."
    /\ Concat(results[1].edits[1].text) = "#[ink::contract]"
    /\ results[1].edits[1].range = <<7, 7>>

\* A module with `#[ink(xyz)]`, an ink! attribute of an unknown kind, is
\* offered no attribute macro.
C25_UnknownKindWitness ==
    /\ pc = "acted"
    /\ FileText(file) = "#[ink(xyz)] mod my_contract {}"
    /\ range = <<12, 12>>
    /\ focus # None /\ focus[1].text = "mod"
    /\ MacroAddActions = <<>>

\* ------------------------------------------------------------------------
\* Properties of the macro completions.
\* ------------------------------------------------------------------------
InkCrateNames == {"ink", "ink_e2e"}

MacroCompletionsDone == suggested # None /\ suggested.path = "completions"

\* The completions that name a macro.
MacroCompletionsOut == SelectSeq(suggested.out, LAMBDA c : c.macro_kind # None)

\* The offset follows a complete crate segment: the focused token is `:` or
\* `::` after `ink` or `ink_e2e`, or the segment after `ink::` or
\* `ink_e2e::` that is not a crate name itself.
AfterCrateSegment ==
    \/ /\ focused_token(context).text \in {":", "::"}
       /\ prev_non_trivia_token(context).text \in InkCrateNames
    \/ /\ prev_non_trivia_token(context).text = "::"
       /\ prev_prev_non_trivia_token(context) # None
       /\ prev_prev_non_trivia_token(context)[1].text \in InkCrateNames
       /\ focused_token(context).text \notin InkCrateNames

OnCrateNameOrLeftBracket ==
    \/ focused_token(context).role = "l_brack"
    \/ focused_token(context).text \in InkCrateNames

EntityModuleAttrPool ==
    {Attr(TRUE, <<"ink", "contract">>, FALSE, <<>>),
     Attr(TRUE, <<"ink", "contract">>, TRUE, <<Meta("env", "crate::Environment")>>),
     Attr(TRUE, <<"cfg">>, TRUE, <<Meta("test", NoValue)>>),
     Attr(TRUE, <<"cfg">>, TRUE, <<Meta("all(test, feature = \"e2e-tests\")", NoValue)>>),
     Attr(TRUE, <<"abc">>, FALSE, <<>>)}

EntityModules ==
    {[kind |-> "MODULE", attrs |-> a, gap |-> g, field |-> None, storage |-> st] :
        a \in SeqsUpTo(EntityModuleAttrPool, MaxItemAttrs), g \in GapPool,
        st \in BOOLEAN}

EntitiesInit ==
    /\ pc = "start"
    /\ file \in {File(<<>>, Some(it), <<>>) : it \in EntityModules}
    /\ entity_call \in {[builder |-> "item", offset |-> None],
                        [builder |-> "item",
                         offset |-> Some(BodyStart(SyntaxTokens(file)))]}
    /\ results = None
    /\ range = None /\ focus = None /\ item_focus = None
    /\ project_name = None /\ project = None /\ kind_in = None /\ kind_out = None
    /\ attr = None /\ castOut = None
    /\ item = None /\ flatOut = None /\ item2 = None /\ flatOut2 = None
    /\ params = None /\ recvOut = None /\ params2 = None /\ recvOut2 = None
    /\ entity = None /\ diags = None /\ kinds = None /\ ordering = None
    /\ context = None /\ suggested = None

ItemEntityActions ==
    /\ pc = "start"
    /\ pc' = "entities"
    /\ results' = item_ink_entity_actions(file.item[1], SyntaxTokens(file),
                                          entity_call.offset)
    /\ UNCHANGED <<attr, castOut, item, flatOut, item2, flatOut2, params, recvOut,
                   params2, recvOut2, file, range, focus, entity, diags,
                   kinds, ordering, context, suggested, item_focus, entity_call,
                   project_name, project, kind_in, kind_out>>

EntitiesNext == ItemEntityActions

SpecEntities == EntitiesInit /\ [][EntitiesNext]_vars

\* The attributes of the module: an `ink::contract` macro, a cfg attribute
\* whose condition includes `test`, one that names the e2e-tests feature.
ModuleHasContractAttr ==
    \E i \in 1..Len(file.item[1].attrs) : file.item[1].attrs[i].path = <<"ink", "contract">>
ModuleHasCfgTestAttr ==
    \E i \in 1..Len(file.item[1].attrs) :
        /\ file.item[1].attrs[i].path = <<"cfg">>
        /\ file.item[1].attrs[i].metas[1].name
              \in {"test", "all(test, feature = \"e2e-tests\")"}
ModuleHasCfgE2ETestsAttr ==
    \E i \in 1..Len(file.item[1].attrs) :
        /\ file.item[1].attrs[i].path = <<"cfg">>
        /\ file.item[1].attrs[i].metas[1].name = "all(test, feature = \"e2e-tests\")"

CrateSegments == {"ink", "ink_e2e", "", "foo", "Ink", "ink_", "test"}

MacroSegments ==
    {"chain_extension", "contract", "storage_item", "test", "trait_definition",
     "", "unknown", "e2e test", "Contract", "tests", "ink"}

KindsInit ==
    /\ pc = "start"
    /\ kind_in \in {[kind |-> k] : k \in InkMacroKind}
                   \cup {[pair |-> <<c, n>>] : c \in CrateSegments, n \in MacroSegments}
    /\ kind_out = None
    /\ project_name = None /\ project = None
    /\ item_focus = None /\ entity_call = None
    /\ attr = None /\ castOut = None
    /\ item = None /\ flatOut = None /\ item2 = None /\ flatOut2 = None
    /\ params = None /\ recvOut = None /\ params2 = None /\ recvOut2 = None
    /\ file = None /\ range = None /\ focus = None /\ results = None
    /\ entity = None /\ diags = None /\ kinds = None /\ ordering = None
    /\ context = None /\ suggested = None

\* crate_name, macro_name and path_as_str of a kind, and the kind of the
\* pair (crate_name, macro_name).
KindToStrings ==
    /\ pc = "start"
    /\ "kind" \in DOMAIN kind_in
    /\ pc' = "converted"
    /\ kind_out' = [crate |-> crate_name(kind_in.kind),
                    name |-> macro_name(kind_in.kind),
                    path |-> path_as_str(kind_in.kind),
                    back |-> InkMacroKindFrom(crate_name(kind_in.kind),
                                              macro_name(kind_in.kind))]
    /\ UNCHANGED <<attr, castOut, item, flatOut, item2, flatOut2, params, recvOut,
                   params2, recvOut2, file, range, focus, results, entity, diags,
                   kinds, ordering, context, suggested, item_focus, entity_call,
                   project_name, project, kind_in>>

\* InkMacroKind::from of a pair of path segments.
StringsToKind ==
    /\ pc = "start"
    /\ "pair" \in DOMAIN kind_in
    /\ pc' = "converted"
    /\ kind_out' = [kind |-> InkMacroKindFrom(kind_in.pair[1], kind_in.pair[2])]
    /\ UNCHANGED <<attr, castOut, item, flatOut, item2, flatOut2, params, recvOut,
                   params2, recvOut2, file, range, focus, results, entity, diags,
                   kinds, ordering, context, suggested, item_focus, entity_call,
                   project_name, project, kind_in>>

KindsNext == KindToStrings \/ StringsToKind

SpecKinds == KindsInit /\ [][KindsNext]_vars

\* The six pairs of path segments of the known macros.
KnownPairs ==
    {<<"ink", "chain_extension">>, <<"ink", "contract">>, <<"ink", "storage_item">>,
     <<"ink", "test">>, <<"ink", "trait_definition">>, <<"ink_e2e", "test">>}

\* C28: for every macro kind but Unknown the kind of the pair (crate_name,
\* macro_name) is the kind itself and path_as_str is crate_name, `::`,
\* macro_name; for Unknown the three strings are empty; no pair of
\* segments other than the six known pairs gives a known kind.
C28_MacroKindRoundTrip ==
    kind_out # None =>
        /\ "kind" \in DOMAIN kind_in =>
              IF kind_in.kind # "Unknown"
              THEN /\ kind_out.back = kind_in.kind
                   /\ kind_out.path = kind_out.crate \o "::" \o kind_out.name
                   /\ <<kind_out.crate, kind_out.name>> \in KnownPairs
              ELSE kind_out.crate = "" /\ kind_out.name = "" /\ kind_out.path = ""
        /\ "pair" \in DOMAIN kind_in =>
              (kind_in.pair \notin KnownPairs => kind_out.kind = "Unknown")

\* The e2e test macro: `ink_e2e`, `test`, `ink_e2e::test`, and back.
C28_Witness ==
    /\ kind_in = [kind |-> "E2ETest"]
    /\ kind_out = [crate |-> "ink_e2e", name |-> "test", path |-> "ink_e2e::test",
                   back |-> "E2ETest"]

\* ------------------------------------------------------------------------
\* Frame of the Flatten action: what its edits touch and what they leave.
\* ------------------------------------------------------------------------
\* Two ranges that share no offset.
DisjointRanges(r1, r2) == r1[2] <= r2[1] \/ r2[2] <= r1[1]

\* The positions of the attributes the Flatten action works on: the primary
\* and the other Arg-kind attributes.
FlattenedPositions(attrs) ==
    {Head(SortedInkPositions(attrs))} \cup Range(OtherArgPositions(attrs))

\* The positions of the attributes the Flatten action has to leave alone: the
\* non-primary Macro-kind ink! attributes and the attributes that are not ink!.
UntouchedPositions(attrs) == (1..Len(attrs)) \ FlattenedPositions(attrs)

\* The arguments written in the replacement text of the action.
ReplacementMetas(action) ==
    ParseMetas(SubSeq(action.edits[1].text, 4, Len(action.edits[1].text) - 1))

\* The arguments, as written, of the attribute at a position.
MetasAt(attrs, i) == [n \in 1..Len(ArgsAt(attrs, i)) |-> ArgsAt(attrs, i)[n].meta]

\* The number of arguments of the primary and the other Arg-kind attributes.
FlattenedArgCount(attrs) ==
    Len(ArgsAt(attrs, Head(SortedInkPositions(attrs))))
    + Len(Flat([n \in 1..Len(OtherArgPositions(attrs)) |->
                   ArgsAt(attrs, OtherArgPositions(attrs)[n])]))

\* C29: the edits of a Flatten action are in original-document coordinates
\* with pairwise disjoint ranges; there are exactly 1 + the number of
\* non-primary Arg-kind ink! attributes of them; non-primary Macro-kind ink!
\* attributes and non-ink attributes are neither deleted nor have their
\* arguments merged into the replacement.
C29_FlattenFrame ==
    (pc # "start" /\ flatOut # <<>>) =>
        LET edits == flatOut[1].edits
            touched == FlattenedPositions(item) IN
        /\ Len(edits) = 1 + Len(OtherArgPositions(item))
        /\ \A m \in 1..Len(edits) :
              \E i \in touched : edits[m].range = AttrRange(item, i)
        /\ \A m, n \in 1..Len(edits) :
              m # n => DisjointRanges(edits[m].range, edits[n].range)
        /\ \A i \in UntouchedPositions(item) :
              \A m \in 1..Len(edits) :
                  DisjointRanges(edits[m].range, AttrRange(item, i))
        /\ Len(ReplacementMetas(flatOut[1])) = FlattenedArgCount(item)
        /\ \A n \in 1..Len(ReplacementMetas(flatOut[1])) :
              \E i \in touched :
                  ReplacementMetas(flatOut[1])[n] \in Range(MetasAt(item, i))

C29_Witness ==
    /\ pc = "flattened"
    /\ item = <<Attr(TRUE, <<"ink", "contract">>, FALSE, <<>>),
                Attr(TRUE, <<"ink", "contract">>, TRUE, <<Meta("env", "crate::Environment")>>),
                Attr(TRUE, <<"ink">>, TRUE, <<Meta("payable", NoValue), Meta("message", NoValue)>>)>>
    /\ Len(flatOut) = 1
    /\ flatOut[1].edits =
          <<[text |-> <<"#[", "ink::contract", "(", "message", ", ", "payable", ")]">>,
             range |-> AttrRange(item, 1)],
            [text |-> <<>>, range |-> AttrRange(item, 3)]>>

\* The attribute paths of well-formed ink! attributes: `ink`, `ink::<macro>`
\* and `ink_e2e::test`.
WellFormedInkPaths ==
    {"ink", "ink::chain_extension", "ink::contract", "ink::storage_item",
     "ink::test", "ink::trait_definition", "ink_e2e::test"}

\* The kind of the primary attribute of a target.
PrimaryKind(attrs) == KindAt(attrs, Head(SortedInkPositions(attrs)))

\* C30: the replacement text of a Flatten action is always a well-formed ink!
\* attribute: it starts with `#[ink` (path `ink`, `ink::<macro>` or
\* `ink_e2e::test`) and never has an empty path, whatever the kind of the
\* primary attribute, a Macro(Unknown) primary such as `#[ink::xyz]` or a bare
\* `#[ink]` included.
C30_ReplacementWellFormed ==
    (pc # "start" /\ flatOut # <<>>) =>
        LET text == flatOut[1].edits[1].text IN
        /\ text[1] = "#["
        /\ text[2] # ""
        /\ text[2] \in WellFormedInkPaths
        /\ text[3] = "("
        /\ text[Len(text)] = ")]"

\* A primary `#[ink::xyz]` followed by `#[ink(message)]`: the replacement is
\* `#[(message)]`.
C30_UnknownMacroEmptyPath ==
    /\ pc = "flattened"
    /\ item = <<Attr(TRUE, <<"ink", "xyz">>, FALSE, <<>>),
                Attr(TRUE, <<"ink">>, TRUE, <<Meta("message", NoValue)>>)>>
    /\ PrimaryKind(item) = Macro("Unknown")
    /\ Len(flatOut) = 1
    /\ flatOut[1].edits[1] =
          [text |-> <<"#[", "", "(", "message", ")]">>, range |-> AttrRange(item, 1)]
    /\ Concat(flatOut[1].edits[1].text) = "#[(message)]"

====
